---- MODULE Spec2Model ----
(***************************************************************************)
(* A state-machine model of the agba Game Boy core: the PPU clock          *)
(* (core/src/ppu/clock.rs), the PPU register/VRAM store                     *)
(* (core/src/ppu/mod.rs), the timer (core/src/cpu/timer.rs) and the        *)
(* cartridge (core/src/cartridge/mod.rs, mbc1.rs) and the registers, stack *)
(* and 8-bit arithmetic of the CPU (core/src/cpu/mod.rs).                  *)
(*                                                                         *)
(* Each subsystem has its own next-state relation and specification; the   *)
(* variables of the other subsystems stay at their reset values.           *)
(***************************************************************************)
EXTENDS Integers, Sequences, FiniteSets, TLC

VARIABLES
    clock,            \* Clock { cycles, line, mode }
    result,           \* ClockResults returned by the most recent clock_step
    op,               \* the most recent operation: [name, a, v, old]
    fed,              \* history: T-cycles passed to clock_step since reset
    stride,           \* cost in T-cycles of every instruction of the stream (SpecFrame)
    frames,           \* history: RenderFrame results returned since reset
    elapsed,          \* history: T-cycles passed to clock_step since the last RenderFrame
    signals,          \* history: RenderFrame results in the current pass of LY
    passes,           \* history: times LY wrapped from 153 to 0
    pass_signals,     \* history: RenderFrame results in the last completed pass of LY
    period,           \* history: T-cycles passed to clock_step between the last two RenderFrame results
    vram,             \* PPU.vram, on the modelled offsets
    oam,              \* PPU.oam: the parsed sprite shadow
    tiles,            \* PPU.tiles: the parsed tile shadow
    timer,            \* Timer { running, div_cycles, cnt_cycles, cnt_index, div_reg, cnt_reg, mod_reg }
    irq,              \* value returned by the most recent Timer::tick
    overflow_checks,  \* build profile: TRUE = arithmetic overflow panics (debug), FALSE = wraps (release)
    aborted,          \* the process panicked
    ticks,            \* history: Timer::tick calls since reset
    since_div,        \* history: Timer::tick calls since reset or the last DIV write
    since_cfg,        \* history: Timer::tick calls since reset or the last TAC/TIMA write
    tima_base,        \* history: TIMA at reset or right after the last TAC/TIMA write
    cart,             \* Cart { mbc, rom_bank, ram_bank, rom, ram, ext_ram_enable, rom_mode, cgb }
    rd,               \* outcome of the most recent Cart call: the byte read, or a panic
    cpu,              \* Cpu { pc, sp, a, b, c, d, e, f, h, l }
    mem,              \* the RAM of the bus under the stack
    ret,              \* outcome of the most recent Cpu call: the value returned, or a panic
    shadow,           \* history: the values pushed and not yet popped since SP was last set
    io,               \* IO { btns, get_btn_keys, get_dir_keys }
    joy,              \* the joypad as its caller sees it: the value last written to $FF00,
                      \* the value last read, the interrupt the last call requested
    fb                \* the pixel array that the sprites are drawn on

clockVars == <<clock, result>>
clockHist == <<fed, stride, frames, elapsed, signals, passes, pass_signals, period>>
ppuVars   == <<vram, oam, tiles>>
timerVars == <<timer, irq, overflow_checks, aborted>>
timerHist == <<ticks, since_div, since_cfg, tima_base>>
cartVars  == <<cart, rd>>
cpuVars   == <<cpu, mem, ret, shadow>>
ioVars    == <<io, joy>>
vars      == <<clock, result, op, fed, stride, frames, elapsed, signals, passes, pass_signals, period,
               vram, oam, tiles,
               timer, irq, overflow_checks, aborted, ticks, since_div, since_cfg, tima_base,
               cart, rd, cpu, mem, ret, shadow, io, joy, fb>>

\* old: what the written register read before the write (0 for other operations)
Op(name, a, v, old) == [name |-> name, a |-> a, v |-> v, old |-> old]

(***************************************************************************)
(* Bounds of the model                                                     *)
(***************************************************************************)
\* Longest instruction, in machine cycles (an instruction costs 1..6 m-cycles).
MaxMCycles == 6
\* SpecLine follows the clock for this many scanline lengths of fed cycles.
MaxLines == 3
\* SpecFrame follows the clock until this many RenderFrame results.
MaxFrames == 2
\* The timer specifications follow the timer for this many tick calls.
MaxTicks == 18
\* SpecOverflow follows the timer for this many times RunLen tick calls, and RunLen more.
MaxRuns == 255
\* The cartridge specifications load this many ROM files into one Cart.
MaxLoads == 1
\* SpecStack follows the stack down to this many pushes below $FFFE.
MaxDepth == 2

\* Costs of one instruction in T-cycles (1 m-cycle = 4 T-cycles).
StepCycles == { 4 * m : m \in 1..MaxMCycles }

(***************************************************************************)
(* core/src/ppu/clock.rs                                                   *)
(***************************************************************************)
HBLANK_LEN == 204
VBLANK_LEN == 456
OAM_READ_LEN == 80
VRAM_READ_LEN == 172

VBLANK_LINE_START == 143
VBLANK_LINE_END == VBLANK_LINE_START + 10

\* ModeTypes::get_idx
get_idx(mode) ==
    CASE mode = "HBLANK"       -> 0
      [] mode = "VBLANK"       -> 1
      [] mode = "OAMReadMode"  -> 2
      [] mode = "VRAMReadMode" -> 3

\* Clock::new
Clock_new == [cycles |-> 0, line |-> 0, mode |-> "HBLANK"]

\* Clock::clock_step: the new clock and the returned ClockResults.
clock_step(clk, cycles) ==
    LET cy == clk.cycles + cycles IN
    CASE clk.mode = "HBLANK" ->
           IF cy >= HBLANK_LEN
           THEN IF clk.line + 1 = VBLANK_LINE_START
                THEN [clock |-> [cycles |-> 0, line |-> clk.line + 1, mode |-> "VBLANK"],
                      result |-> "RenderFrame"]
                ELSE [clock |-> [cycles |-> 0, line |-> clk.line + 1, mode |-> "OAMReadMode"],
                      result |-> "NoAction"]
           ELSE [clock |-> [clk EXCEPT !.cycles = cy], result |-> "NoAction"]
      [] clk.mode = "VBLANK" ->
           IF cy >= VBLANK_LEN
           THEN IF clk.line + 1 > VBLANK_LINE_END
                THEN [clock |-> [cycles |-> 0, line |-> 0, mode |-> "OAMReadMode"],
                      result |-> "NoAction"]
                ELSE [clock |-> [cycles |-> 0, line |-> clk.line + 1, mode |-> "VBLANK"],
                      result |-> "NoAction"]
           ELSE [clock |-> [clk EXCEPT !.cycles = cy], result |-> "NoAction"]
      [] clk.mode = "OAMReadMode" ->
           IF cy >= OAM_READ_LEN
           THEN [clock |-> [cycles |-> 0, line |-> clk.line, mode |-> "VRAMReadMode"],
                 result |-> "NoAction"]
           ELSE [clock |-> [clk EXCEPT !.cycles = cy], result |-> "NoAction"]
      [] clk.mode = "VRAMReadMode" ->
           IF cy >= VRAM_READ_LEN
           THEN [clock |-> [cycles |-> 0, line |-> clk.line, mode |-> "HBLANK"],
                 result |-> "RenderScanline"]
           ELSE [clock |-> [clk EXCEPT !.cycles = cy], result |-> "NoAction"]

\* Clock::get_scanline
get_scanline(clk) == clk.line

\* Clock::get_mode
get_mode(clk) == clk.mode

\* Clock::reset_line
reset_line(clk) == [clk EXCEPT !.line = 0]

\* Clock::is_vblank_interrupt
is_vblank_interrupt(clk) == clk.mode = "VBLANK"

(***************************************************************************)
(* Byte helpers (utils::ModifyBits)                                        *)
(***************************************************************************)
Pow2(n) == 2 ^ n

\* ModifyBits::get_bit
get_bit(x, n) == (x \div Pow2(n)) % 2 = 1

\* ModifyBits::set_bit
set_bit(x, n) == IF get_bit(x, n) THEN x ELSE x + Pow2(n)

\* ModifyBits::write_bit
write_bit(x, n, v) ==
    IF v THEN set_bit(x, n) ELSE IF get_bit(x, n) THEN x - Pow2(n) ELSE x

(***************************************************************************)
(* core/src/ppu/sprite.rs                                                  *)
(***************************************************************************)
X_OFFSET == 8
Y_OFFSET == 16
OAM_BYTE_SIZE == 4

\* Sprite::new
Sprite_new ==
    [data |-> [i \in 0..(OAM_BYTE_SIZE - 1) |-> 0], tile_num |-> 0, x |-> 0, y |-> 0,
     above_bkgd |-> TRUE, x_flip |-> FALSE, y_flip |-> FALSE, palette |-> 0, vram_bank |-> 0]

\* Sprite::set_byte (update_byte in ppu/mod.rs) on a DMG: parse_oam_byte1..4, then data[index] = byte
update_byte(spr, index, byte) ==
    LET parsed ==
          CASE index = 0 -> [spr EXCEPT !.y = byte - Y_OFFSET]
            [] index = 1 -> [spr EXCEPT !.x = byte - X_OFFSET]
            [] index = 2 -> [spr EXCEPT !.tile_num = byte]
            [] index = 3 -> [spr EXCEPT !.above_bkgd = ~get_bit(byte, 7),
                                        !.y_flip = get_bit(byte, 6),
                                        !.x_flip = get_bit(byte, 5),
                                        !.palette = IF get_bit(byte, 4) THEN 1 ELSE 0]
    IN [parsed EXCEPT !.data[index] = byte]

(***************************************************************************)
(* core/src/ppu/mod.rs                                                     *)
(***************************************************************************)
VRAM_OFFSET == 32768
TILE_BYTES == 16

LCDC == 65344 - VRAM_OFFSET   \* $FF40
STAT == 65345 - VRAM_OFFSET   \* $FF41
SCY == 65346 - VRAM_OFFSET    \* $FF42
SCX == 65347 - VRAM_OFFSET    \* $FF43
LY == 65348 - VRAM_OFFSET     \* $FF44
LYC == 65349 - VRAM_OFFSET    \* $FF45
BGP == 65351 - VRAM_OFFSET    \* $FF47
OBP0 == 65352 - VRAM_OFFSET   \* $FF48
OBP1 == 65353 - VRAM_OFFSET   \* $FF49
WY == 65354 - VRAM_OFFSET     \* $FF4A
WX == 65355 - VRAM_OFFSET     \* $FF4B

\* utils: the side of a tile and the size of the screen, in pixels
TILESIZE == 8
SCREEN_WIDTH == 160
SCREEN_HEIGHT == 144

DISPLAY_RAM_RANGE == (32768 - VRAM_OFFSET)..(40960 - VRAM_OFFSET - 1)
OAM_MEM == 65024 - VRAM_OFFSET       \* $FE00 - VRAM_OFFSET
OAM_MEM_END == 65183 - VRAM_OFFSET   \* $FE9F - VRAM_OFFSET, inclusive
TILE_SET == 32768 - VRAM_OFFSET
TILE_SET_END == 38911 - VRAM_OFFSET  \* $97FF - VRAM_OFFSET

\* The CPU addresses the model writes and reads:
\* $8000 (tile set), $9800 (tile map), $FE00 and $FE9F (OAM), STAT, LY, LYC.
RawAddrs == {32768, 38912, 65024, 65183, 65345, 65348, 65349}
\* CPU addresses of OAM ($FE00-$FE9F) and of VRAM ($8000-$9FFF)
IsOamAddr(raw) == raw >= 65024 /\ raw <= 65183
IsVramAddr(raw) == raw >= 32768 /\ raw <= 40959
Offsets == { a - VRAM_OFFSET : a \in RawAddrs }
SprNums == { (o - OAM_MEM) \div OAM_BYTE_SIZE : o \in { x \in Offsets : x >= OAM_MEM /\ x <= OAM_MEM_END } }
TileNums == { (o - TILE_SET) \div TILE_BYTES : o \in { x \in Offsets : x >= TILE_SET /\ x <= TILE_SET_END } }
\* Bytes the CPU writes
ByteVals == {0, 3, 255}
\* Lines handed to set_ly
LineVals == {0, 1, 3, 143}

\* Tile::new: the bytes of a tile
Tile_new == [i \in 0..(TILE_BYTES - 1) |-> 0]

\* Tile::update_byte
tile_update_byte(tile, byte_num, val) == [tile EXCEPT ![byte_num] = val]

\* PPU::new, on the modelled addresses
PPU_new ==
    [vram |-> [o \in Offsets \cup {LCDC, SCY, SCX, BGP, OBP0, OBP1, WY, WX} |-> 0],
     oam |-> [n \in SprNums |-> Sprite_new],
     tiles |-> [n \in TileNums |-> Tile_new]]

\* is_in_oam
is_in_oam(addr) == addr >= OAM_MEM /\ addr <= OAM_MEM_END

\* is_in_tile_set
is_in_tile_set(addr) == addr >= TILE_SET /\ addr <= TILE_SET_END

\* PPU::get_lcdc_status
get_lcdc_status(p) ==
    LET mode == p.vram[STAT] % 4 IN
    CASE mode = 0 -> "HBLANK"
      [] mode = 1 -> "VBLANK"
      [] mode = 2 -> "OAMReadMode"
      [] mode = 3 -> "VRAMReadMode"

\* PPU::is_valid_status: called with the CPU address, which it compares with offsets
is_valid_status(p, addr) ==
    LET lcdc_status == get_lcdc_status(p) IN
    CASE lcdc_status = "OAMReadMode"  -> ~is_in_oam(addr)
      [] lcdc_status = "VRAMReadMode" -> ~is_in_oam(addr) /\ addr \notin DISPLAY_RAM_RANGE
      [] OTHER -> TRUE

\* PPU::write_vram
write_vram(p, raw_addr, val) ==
    LET addr == raw_addr - VRAM_OFFSET IN
    IF is_valid_status(p, raw_addr)
    THEN LET shadowed ==
               IF is_in_oam(addr)
               THEN LET relative_addr == addr - OAM_MEM
                        spr_num == relative_addr \div 4
                        byte_num == relative_addr % 4
                    IN [p EXCEPT !.oam[spr_num] = update_byte(@, byte_num, val)]
               ELSE IF is_in_tile_set(addr)
               THEN LET offset == addr - TILE_SET
                        tile_num == offset \div TILE_BYTES
                        byte_num == offset % TILE_BYTES
                    IN [p EXCEPT !.tiles[tile_num] = tile_update_byte(@, byte_num, val)]
               ELSE p
         IN [shadowed EXCEPT !.vram[addr] = val]
    ELSE p

\* Writes of n bytes to VRAM and OAM, in order
RECURSIVE write_vram_all(_, _)
write_vram_all(p, ws) ==
    IF ws = <<>> THEN p
    ELSE write_vram_all(write_vram(p, Head(ws)[1], Head(ws)[2]), Tail(ws))

\* PPU::read_vram
read_vram(p, raw_addr) == p.vram[raw_addr - VRAM_OFFSET]

\* PPU::set_ly: the new PPU and the returned flag
set_ly(p, line) ==
    LET p1 == [p EXCEPT !.vram[LY] = line] IN
    IF p1.vram[LY] = p1.vram[LYC]
    THEN LET p2 == [p1 EXCEPT !.vram[STAT] = set_bit(@, 2)] IN
         [ppu |-> p2, ret |-> get_bit(p2.vram[STAT], 6)]
    ELSE [ppu |-> p1, ret |-> FALSE]

\* set_status that adds the mode without clearing the old mode bits
set_status_keeps_bits(p, mode) ==
    [p EXCEPT !.vram[STAT] = (@ + mode) % 256]

\* PPU::set_status: STAT &= 0b1111_1100; STAT |= mode
set_status(p, mode) ==
    [p EXCEPT !.vram[STAT] = (@ - (@ % 4)) + mode]

\* Tile::get_row: the eight 2-bit pixels of a row, the leftmost from bit 7 of the two
\* bytes of the row, the low bit from the first byte
tile_get_row(tile, row) ==
    [col \in 0..(TILESIZE - 1) |->
        (IF get_bit(tile[2 * row], 7 - col) THEN 1 ELSE 0)
        + (IF get_bit(tile[2 * row + 1], 7 - col) THEN 2 ELSE 0)]

\* unpack_u8: the four 2-bit entries of a palette byte, entry 0 from bits 0-1
unpack_u8(byte) == [i \in 0..3 |-> (byte \div Pow2(2 * i)) % 4]

\* PPU::get_spr_palette
get_spr_palette(p, pal_0) ==
    IF pal_0 THEN unpack_u8(p.vram[OBP0]) ELSE unpack_u8(p.vram[OBP1])

\* The pixels of the pixel array that the model keeps: the first eight of scanline 0
FbKept == 0..(TILESIZE - 1)

\* PPU::draw_spr on the kept pixels: each pixel of the array is reached by at most one
\* (row, col) of the tile, and takes the palette-mapped pixel when should_draw holds
draw_spr(p, pixel_array, tile, spr, spr_coords) ==
    LET palette == get_spr_palette(p, spr.palette = 0)
        flip_x == spr.x_flip
        flip_y == spr.y_flip
        above_bg == spr.above_bkgd
        spr_x == spr_coords.x
        spr_y == spr_coords.y
        pixels(row) == IF flip_y THEN tile_get_row(tile, TILESIZE - row - 1)
                       ELSE tile_get_row(tile, row)
        x_offset(col) == IF flip_x THEN TILESIZE - col - 1 ELSE col
        Hits(i) == { rc \in (0..(TILESIZE - 1)) \X (0..(TILESIZE - 1)) :
                       /\ spr_x + x_offset(rc[2]) < SCREEN_WIDTH
                       /\ spr_y + rc[1] < SCREEN_HEIGHT
                       /\ (spr_x + x_offset(rc[2])) + SCREEN_WIDTH * (spr_y + rc[1]) = i }
        drawn(i) ==
            LET rc == CHOOSE h \in Hits(i) : TRUE
                pixel == pixels(rc[1])[rc[2]]
                corrected_pixel == palette[pixel]
                should_draw == (above_bg /\ pixel # 0) \/ (~above_bg /\ pixel_array[i] = 0)
            IN IF should_draw THEN corrected_pixel ELSE pixel_array[i]
    IN [i \in DOMAIN pixel_array |-> IF Hits(i) = {} THEN pixel_array[i] ELSE drawn(i)]

(***************************************************************************)
(* core/src/cpu/timer.rs                                                   *)
(***************************************************************************)
DIV_REG == 65284   \* $FF04
CNT_REG == 65285   \* $FF05
MOD_REG == 65286   \* $FF06
CON_REG == 65287   \* $FF07

TIMER_SPEED_IN_CYCLES == 16
COUNT_SPEED_IN_CYCLES == <<64, 1, 4, 16>>   \* indexed from 1 here, from 0 in the source

TimerRegs == {DIV_REG, CNT_REG, MOD_REG, CON_REG}
\* Values written to TAC: stopped, and running at each of the four rates
TacVals == {0, 4, 5, 6, 7}
\* Values written to DIV, TIMA and TMA
TimerVals == {0, 171, 255}

\* Timer::new
Timer_new ==
    [running |-> FALSE, div_cycles |-> 0, cnt_cycles |-> 0, cnt_index |-> 0,
     div_reg |-> 0, cnt_reg |-> 0, mod_reg |-> 0]

\* u8 `+= 1`: panics when overflow checks are on, wraps otherwise
AddOne8(x, oc) == IF x = 255 THEN [val |-> 0, abort |-> oc] ELSE [val |-> x + 1, abort |-> FALSE]

\* Timer::tick under build profile oc: the new timer, the returned flag, whether it panicked
tick(t, oc) ==
    IF t.running
    THEN LET dc == AddOne8(t.div_cycles, oc)
             cc == AddOne8(t.cnt_cycles, oc)
             div_hit == dc.val = TIMER_SPEED_IN_CYCLES
             t1 == [t EXCEPT !.div_cycles = IF div_hit THEN 0 ELSE dc.val,
                             !.cnt_cycles = cc.val,
                             !.div_reg = IF div_hit THEN (@ + 1) % 256 ELSE @]
             cnt_hit == cc.val = COUNT_SPEED_IN_CYCLES[t.cnt_index + 1]
         IN IF dc.abort \/ cc.abort
            THEN [timer |-> t, interrupt |-> FALSE, abort |-> TRUE]
            ELSE IF cnt_hit
            THEN IF t1.cnt_reg = 255
                 THEN [timer |-> [t1 EXCEPT !.cnt_reg = t1.mod_reg, !.cnt_cycles = 0],
                       interrupt |-> TRUE, abort |-> FALSE]
                 ELSE [timer |-> [t1 EXCEPT !.cnt_reg = @ + 1],
                       interrupt |-> FALSE, abort |-> FALSE]
            ELSE [timer |-> t1, interrupt |-> FALSE, abort |-> FALSE]
    ELSE [timer |-> t, interrupt |-> FALSE, abort |-> FALSE]

\* Timer::read_timer
read_timer(t, addr) ==
    CASE addr = DIV_REG -> t.div_reg
      [] addr = CNT_REG -> t.cnt_reg
      [] addr = MOD_REG -> t.mod_reg
      [] addr = CON_REG -> (IF t.running THEN 4 ELSE 0) + t.cnt_index

\* Timer::write_timer with the DIV arm storing the written value, as the TMA arm does
write_timer_div_stores(t, addr, val) ==
    CASE addr = DIV_REG -> [t EXCEPT !.div_reg = val]
      [] addr = CNT_REG -> [t EXCEPT !.cnt_reg = 0]
      [] addr = MOD_REG -> [t EXCEPT !.mod_reg = val]
      [] addr = CON_REG -> [t EXCEPT !.running = get_bit(val, 2), !.cnt_index = val % 4]

\* Timer::write_timer
write_timer(t, addr, val) ==
    CASE addr = DIV_REG -> [t EXCEPT !.div_reg = 0]
      [] addr = CNT_REG -> [t EXCEPT !.cnt_reg = 0]
      [] addr = MOD_REG -> [t EXCEPT !.mod_reg = val]
      [] addr = CON_REG -> [t EXCEPT !.running = get_bit(val, 2), !.cnt_index = val % 4]

(***************************************************************************)
(* core/src/cartridge/mod.rs, core/src/cartridge/mbc1.rs                   *)
(***************************************************************************)
ROM_BANK_SIZE == 16384               \* 0x4000
RAM_BANK_SIZE == 8192                \* 0x2000
MAX_RAM_SIZE == 32 * 1024
MBC5_MAX_RAM_SIZE == 128 * 1024

ROM_START == 0
ROM_STOP == 32767                    \* $7FFF

RAM_ENABLE_START == ROM_START
RAM_ENABLE_STOP == 8191              \* $1FFF
ROM_BANK_NUM_START == RAM_ENABLE_STOP + 1
ROM_BANK_NUM_STOP == 16383           \* $3FFF
RAM_BANK_NUM_START == ROM_BANK_NUM_STOP + 1
RAM_BANK_NUM_STOP == 24575           \* $5FFF
ROM_RAM_MODE_START == RAM_BANK_NUM_STOP + 1
ROM_RAM_MODE_STOP == 32767           \* $7FFF
EXT_RAM_START == 40960               \* $A000
EXT_RAM_STOP == 49151                \* $BFFF

CGB_FLAG_ADDR == 323                 \* $0143
MBC_TYPE_ADDR == 327                 \* $0147

\* A ROM file of `len` bytes whose cartridge-type byte, when it has one, is `type`.
\* Every other byte is a pattern that tells the banks and the offsets apart.
RomFile(type, len) == [type |-> type, len |-> len]
\* A ROM file of `banks` banks of ROM_BANK_SIZE bytes
RomImage(type, banks) == RomFile(type, banks * ROM_BANK_SIZE)
image_len(img) == img.len
image_byte(img, i) ==
    IF i = MBC_TYPE_ADDR THEN img.type
    ELSE (i + 7 * (i \div ROM_BANK_SIZE)) % 256

\* Vec<u8> rom as the files pushed onto it: rom.len() and rom[i]
RECURSIVE rom_len(_)
rom_len(rom) == IF rom = <<>> THEN 0 ELSE image_len(Head(rom)) + rom_len(Tail(rom))
RECURSIVE rom_at(_, _)
rom_at(rom, i) ==
    IF i < image_len(Head(rom)) THEN image_byte(Head(rom), i)
    ELSE rom_at(Tail(rom), i - image_len(Head(rom)))

\* MBC2's external RAM: 512 half-bytes at $A000-$A1FF, mirrored through $BFFF
MBC2_RAM_SIZE == 512

\* Offsets of external RAM the model keeps the bytes of: the first and the last byte
\* of each of the four banks, and the last half-byte of MBC2's RAM. Every other byte
\* of the Vec stays 0.
RamOffsets ==
    { b * RAM_BANK_SIZE + r : b \in 0..3, r \in {0, RAM_BANK_SIZE - 1} }
        \cup {MBC2_RAM_SIZE - 1}

\* vec![0; n]
ram_zeroed(n) == [len |-> n, bytes |-> [i \in RamOffsets |-> 0]]
ram_at(ram, i) == IF i \in RamOffsets THEN ram.bytes[i] ELSE 0

\* u16 / u8 `|`
BitOr(a, b) ==
    LET bit(n) == IF get_bit(a, n) \/ get_bit(b, n) THEN Pow2(n) ELSE 0
    IN bit(0) + bit(1) + bit(2) + bit(3) + bit(4) + bit(5) + bit(6) + bit(7)
       + bit(8) + bit(9) + bit(10) + bit(11) + bit(12) + bit(13) + bit(14) + bit(15)

\* Cart::new
Cart_new ==
    [mbc |-> "NONE", rom_bank |-> 1, ram_bank |-> 0, rom |-> <<>>,
     ram |-> [len |-> 0, bytes |-> [i \in RamOffsets |-> 0]],
     ext_ram_enable |-> FALSE, rom_mode |-> TRUE, cgb |-> FALSE]

\* Outcome of a read: the byte returned, or a panic
Byte(v) == [val |-> v, abort |-> FALSE]
Panic == [val |-> 0, abort |-> TRUE]
NoRead == Byte(0)

\* Cart::set_mbc
set_mbc(c) ==
    LET val == rom_at(c.rom, MBC_TYPE_ADDR)
        mbc == CASE val = 0 -> "NONE"
                 [] val \in 1..3 -> "MBC1"
                 [] val \in 5..6 -> "MBC2"
                 [] val \in 15..19 -> "MBC3"
                 [] OTHER -> "NONE"
    IN [c EXCEPT !.mbc = mbc]

\* Cart::set_cgb
set_cgb(c) ==
    LET val == rom_at(c.rom, CGB_FLAG_ADDR)
    IN [c EXCEPT !.cgb = (val = 128) \/ (val = 192)]

\* Cart::init_ext_ram
init_ext_ram(c) ==
    IF c.mbc = "MBC5"
    THEN [c EXCEPT !.ram = ram_zeroed(MBC5_MAX_RAM_SIZE)]
    ELSE [c EXCEPT !.ram = ram_zeroed(MAX_RAM_SIZE)]

\* Cart::load_cart: the bytes of the file are pushed onto rom
push_rom(c, img) == [c EXCEPT !.rom = Append(@, img)]

\* Cart::set_mbc indexes rom[MBC_TYPE_ADDR], which panics when rom is no longer than that
set_mbc_panics(c) == rom_len(c.rom) <= MBC_TYPE_ADDR

\* Cart::load_cart
load_cart(c, img) ==
    init_ext_ram(set_cgb(set_mbc(push_rom(c, img))))

\* mbc1_read_byte under build profile oc: addr - EXT_RAM_START is a u16 subtraction,
\* which panics on underflow when overflow checks are on and wraps otherwise
mbc1_read_byte(c, addr, oc) ==
    LET rel_addr == (addr - EXT_RAM_START) % 65536
        ram_bank_addr == c.ram_bank * RAM_BANK_SIZE + rel_addr
    IN IF addr < EXT_RAM_START /\ oc THEN Panic
       ELSE IF ram_bank_addr >= c.ram.len THEN Panic
       ELSE Byte(ram_at(c.ram, ram_bank_addr))

\* mbc2_read_byte: an enabled read returns the stored half-byte of the mirrored
\* 512-entry RAM with the high nibble $F, any other read $FF
mbc2_read_byte(c, addr) ==
    IF addr \in EXT_RAM_START..EXT_RAM_STOP /\ c.ext_ram_enable
    THEN LET rel_addr == (addr - EXT_RAM_START) % MBC2_RAM_SIZE
         IN Byte(240 + (ram_at(c.ram, rel_addr) % 16))
    ELSE Byte(255)

\* mbc3_read_byte: an enabled read with a RAM bank ($00-$03) selected returns the byte
\* of that bank, a disabled read $FF. The clock registers are not kept: with one of
\* them ($08-$0C) selected the read returns 0
mbc3_read_byte(c, addr) ==
    IF addr \in EXT_RAM_START..EXT_RAM_STOP /\ c.ext_ram_enable
    THEN IF c.ram_bank \in 0..3
         THEN Byte(ram_at(c.ram, c.ram_bank * RAM_BANK_SIZE + (addr - EXT_RAM_START)))
         ELSE Byte(0)
    ELSE Byte(255)

\* mbc5_read_byte: an enabled read returns the byte of the selected RAM bank, a
\* disabled read $FF
mbc5_read_byte(c, addr) ==
    IF addr \in EXT_RAM_START..EXT_RAM_STOP /\ c.ext_ram_enable
    THEN Byte(ram_at(c.ram, c.ram_bank * RAM_BANK_SIZE + (addr - EXT_RAM_START)))
    ELSE Byte(255)

\* Cart::read_cart
read_cart(c, address, oc) ==
    IF address < ROM_BANK_SIZE
    THEN IF address >= rom_len(c.rom) THEN Panic ELSE Byte(rom_at(c.rom, address))
    ELSE IF address < ROM_STOP
    THEN LET rel_address == address - ROM_BANK_SIZE
             bank_address == c.rom_bank * ROM_BANK_SIZE + rel_address
         IN IF bank_address >= rom_len(c.rom) THEN Panic
            ELSE Byte(rom_at(c.rom, bank_address))
    ELSE CASE c.mbc = "MBC1" -> mbc1_read_byte(c, address, oc)
           [] c.mbc = "MBC2" -> mbc2_read_byte(c, address)
           [] c.mbc = "MBC3" -> mbc3_read_byte(c, address)
           [] c.mbc = "MBC5" -> mbc5_read_byte(c, address)
           [] OTHER -> Byte(0)

\* mbc1_write_byte without the rewrite of bank number $00 to $01
mbc1_write_byte_no_alias(c, addr, val) ==
    CASE addr \in RAM_ENABLE_START..RAM_ENABLE_STOP ->
           [c EXCEPT !.ext_ram_enable = (val = 10)]
      [] addr \in ROM_BANK_NUM_START..ROM_BANK_NUM_STOP ->
           [c EXCEPT !.rom_bank = val % 32]
      [] addr \in RAM_BANK_NUM_START..RAM_BANK_NUM_STOP ->
           LET bits == val % 4 IN
           IF c.rom_mode
           THEN [c EXCEPT !.rom_bank = BitOr(@, (bits * 16) % 256)]
           ELSE [c EXCEPT !.ram_bank = bits]
      [] addr \in ROM_RAM_MODE_START..ROM_RAM_MODE_STOP ->
           [c EXCEPT !.rom_mode = (val = 0)]
      [] addr \in EXT_RAM_START..EXT_RAM_STOP ->
           IF c.ext_ram_enable
           THEN LET rel_addr == addr - EXT_RAM_START
                    ram_addr == c.ram_bank * RAM_BANK_SIZE + rel_addr
                IN [c EXCEPT !.ram.bytes[ram_addr] = val]
           ELSE c

\* mbc1_write_byte storing to external RAM whether or not it is enabled
mbc1_write_byte_always_stores(c, addr, val) ==
    CASE addr \in RAM_ENABLE_START..RAM_ENABLE_STOP ->
           [c EXCEPT !.ext_ram_enable = (val = 10)]
      [] addr \in ROM_BANK_NUM_START..ROM_BANK_NUM_STOP ->
           LET bank_val == val % 32 IN
           IF bank_val \in {0, 32, 64, 96}
           THEN [c EXCEPT !.rom_bank = bank_val + 1]
           ELSE [c EXCEPT !.rom_bank = bank_val]
      [] addr \in RAM_BANK_NUM_START..RAM_BANK_NUM_STOP ->
           LET bits == val % 4 IN
           IF c.rom_mode
           THEN [c EXCEPT !.rom_bank = BitOr(@, (bits * 16) % 256)]
           ELSE [c EXCEPT !.ram_bank = bits]
      [] addr \in ROM_RAM_MODE_START..ROM_RAM_MODE_STOP ->
           [c EXCEPT !.rom_mode = (val = 0)]
      [] addr \in EXT_RAM_START..EXT_RAM_STOP ->
           LET rel_addr == addr - EXT_RAM_START
               ram_addr == c.ram_bank * RAM_BANK_SIZE + rel_addr
           IN [c EXCEPT !.ram.bytes[ram_addr] = val]

\* mbc1_write_byte, for the addresses of the cartridge ($0000-$7FFF, $A000-$BFFF); any
\* other address panics
mbc1_write_byte(c, addr, val) ==
    CASE addr \in RAM_ENABLE_START..RAM_ENABLE_STOP ->
           [c EXCEPT !.ext_ram_enable = (val = 10)]
      [] addr \in ROM_BANK_NUM_START..ROM_BANK_NUM_STOP ->
           LET bank_val == val % 32 IN
           IF bank_val \in {0, 32, 64, 96}
           THEN [c EXCEPT !.rom_bank = bank_val + 1]
           ELSE [c EXCEPT !.rom_bank = bank_val]
      [] addr \in RAM_BANK_NUM_START..RAM_BANK_NUM_STOP ->
           LET bits == val % 4 IN
           IF c.rom_mode
           THEN [c EXCEPT !.rom_bank = BitOr(@, (bits * 16) % 256)]
           ELSE [c EXCEPT !.ram_bank = bits]
      [] addr \in ROM_RAM_MODE_START..ROM_RAM_MODE_STOP ->
           [c EXCEPT !.rom_mode = (val = 0)]
      [] addr \in EXT_RAM_START..EXT_RAM_STOP ->
           IF c.ext_ram_enable
           THEN LET rel_addr == addr - EXT_RAM_START
                    ram_addr == c.ram_bank * RAM_BANK_SIZE + rel_addr
                IN [c EXCEPT !.ram.bytes[ram_addr] = val]
           ELSE c

\* ram[i] = v, for the offsets the model keeps
ram_put(c, i, v) == IF i \in RamOffsets THEN [c EXCEPT !.ram.bytes[i] = v] ELSE c

\* mbc2_write_byte: in $0000-$3FFF bit 8 of the address tells RAM enable (low nibble
\* $0A) from ROM bank (low 4 bits, zero rewritten to 1); an enabled write to
\* $A000-$BFFF stores the low 4 bits in the mirrored 512-entry RAM
mbc2_write_byte(c, addr, val) ==
    CASE addr \in RAM_ENABLE_START..ROM_BANK_NUM_STOP ->
           IF ~get_bit(addr, 8)
           THEN [c EXCEPT !.ext_ram_enable = (val % 16 = 10)]
           ELSE LET bank_val == val % 16 IN
                [c EXCEPT !.rom_bank = IF bank_val = 0 THEN 1 ELSE bank_val]
      [] addr \in EXT_RAM_START..EXT_RAM_STOP ->
           IF c.ext_ram_enable
           THEN ram_put(c, (addr - EXT_RAM_START) % MBC2_RAM_SIZE, val % 16)
           ELSE c
      [] OTHER -> c

\* mbc3_write_byte: RAM/RTC enable (low nibble $0A), ROM bank (7 bits, zero rewritten
\* to 1), RAM bank ($00-$03) or clock register select ($08-$0C), clock latch (not
\* kept); an enabled write to $A000-$BFFF stores the byte in the selected RAM bank,
\* and changes no byte of RAM while a clock register is selected
mbc3_write_byte(c, addr, val) ==
    CASE addr \in RAM_ENABLE_START..RAM_ENABLE_STOP ->
           [c EXCEPT !.ext_ram_enable = (val % 16 = 10)]
      [] addr \in ROM_BANK_NUM_START..ROM_BANK_NUM_STOP ->
           LET bank_val == val % 128 IN
           [c EXCEPT !.rom_bank = IF bank_val = 0 THEN 1 ELSE bank_val]
      [] addr \in RAM_BANK_NUM_START..RAM_BANK_NUM_STOP ->
           IF val \in (0..3) \cup (8..12) THEN [c EXCEPT !.ram_bank = val] ELSE c
      [] addr \in EXT_RAM_START..EXT_RAM_STOP ->
           IF c.ext_ram_enable /\ c.ram_bank \in 0..3
           THEN ram_put(c, c.ram_bank * RAM_BANK_SIZE + (addr - EXT_RAM_START), val)
           ELSE c
      [] OTHER -> c

\* mbc5_write_byte: RAM enable (low nibble $0A), low 8 bits of the ROM bank
\* ($2000-$2FFF), its bit 9 ($3000-$3FFF), 4-bit RAM bank; zero is a valid ROM bank
mbc5_write_byte(c, addr, val) ==
    CASE addr \in RAM_ENABLE_START..RAM_ENABLE_STOP ->
           [c EXCEPT !.ext_ram_enable = (val % 16 = 10)]
      [] addr \in ROM_BANK_NUM_START..(ROM_BANK_NUM_START + 4095) ->
           [c EXCEPT !.rom_bank = (@ \div 256) * 256 + val]
      [] addr \in (ROM_BANK_NUM_START + 4096)..ROM_BANK_NUM_STOP ->
           [c EXCEPT !.rom_bank = (val % 2) * 256 + (@ % 256)]
      [] addr \in RAM_BANK_NUM_START..RAM_BANK_NUM_STOP ->
           [c EXCEPT !.ram_bank = val % 16]
      [] addr \in EXT_RAM_START..EXT_RAM_STOP ->
           IF c.ext_ram_enable
           THEN ram_put(c, c.ram_bank * RAM_BANK_SIZE + (addr - EXT_RAM_START), val)
           ELSE c
      [] OTHER -> c

\* Cart::write_cart
write_cart(c, addr, val) ==
    CASE c.mbc = "MBC1" -> mbc1_write_byte(c, addr, val)
      [] c.mbc = "MBC2" -> mbc2_write_byte(c, addr, val)
      [] c.mbc = "MBC3" -> mbc3_write_byte(c, addr, val)
      [] c.mbc = "MBC5" -> mbc5_write_byte(c, addr, val)
      [] OTHER -> c

(***************************************************************************)
(* Byte helpers (utils::ModifyBytes and the half-carry checks)             *)
(***************************************************************************)
\* merge_bytes
merge_bytes(high, low) == high * 256 + low
\* ModifyBytes::get_high_byte, ModifyBytes::get_low_byte
get_high_byte(val) == val \div 256
get_low_byte(val) == val % 256
\* check_h_carry_u8: the low nibbles carry into bit 4
check_h_carry_u8(x, y) == (x % 16) + (y % 16) > 15
\* check_h_borrow_u8: the low nibbles borrow from bit 4
check_h_borrow_u8(x, y) == (x % 16) < (y % 16)

\* check_h_carry_u16: the low twelve bits carry into bit 12
check_h_carry_u16(x, y) == (x % 4096) + (y % 4096) > 4095

\* u8 `^`
BitXor(a, b) ==
    LET bit(n) == IF get_bit(a, n) # get_bit(b, n) THEN Pow2(n) ELSE 0
    IN bit(0) + bit(1) + bit(2) + bit(3) + bit(4) + bit(5) + bit(6) + bit(7)

\* u8 `&`
BitAnd(a, b) ==
    LET bit(n) == IF get_bit(a, n) /\ get_bit(b, n) THEN Pow2(n) ELSE 0
    IN bit(0) + bit(1) + bit(2) + bit(3) + bit(4) + bit(5) + bit(6) + bit(7)

(***************************************************************************)
(* The bus as the CPU's stack sees it (bus::Bus)                           *)
(***************************************************************************)
\* The RAM the model keeps: the top of HRAM and IE, where the stack starts
StackLow == 65534 - 2 * MaxDepth
StackAddrs == StackLow..65535
\* Bus::new: RAM is zeroed
Ram_new == [a \in StackAddrs |-> 0]
\* The bus: its RAM and its cartridge
Bus(m, c) == [ram |-> m, cart |-> c]
\* Bus::read_ram: HRAM and IE are read from RAM, $0000-$7FFF from the cartridge
bus_read_ram(b, addr, oc) ==
    IF addr \in DOMAIN b.ram THEN Byte(b.ram[addr]) ELSE read_cart(b.cart, addr, oc)
\* Bus::write_ram: a write to HRAM or IE is stored, a write to $0000-$7FFF goes to the
\* cartridge
bus_write_ram(b, addr, val) ==
    IF addr \in DOMAIN b.ram THEN [b EXCEPT !.ram[addr] = val]
    ELSE [b EXCEPT !.cart = write_cart(@, addr, val)]

(***************************************************************************)
(* core/src/cpu/mod.rs: registers, flags, stack, 8-bit arithmetic          *)
(***************************************************************************)
Regs == {"A", "B", "C", "D", "E", "F", "H", "L"}
Regs16 == {"AF", "BC", "DE", "HL"}
Flags == {"Z", "N", "H", "C"}

\* The registers of Cpu::new
Cpu_new ==
    [pc |-> 256, sp |-> 65534, a |-> 1, b |-> 0, c |-> 19, d |-> 0, e |-> 216,
     f |-> 176, h |-> 1, l |-> 77]

\* The bit of F that a flag is
FlagMask(fl) ==
    CASE fl = "Z" -> 128
      [] fl = "N" -> 64
      [] fl = "H" -> 32
      [] fl = "C" -> 16

\* Cpu::clear_flag
clear_flag(c, fl) == [c EXCEPT !.f = BitAnd(@, 255 - FlagMask(fl))]

\* Cpu::get_flag
get_flag(c, fl) == BitAnd(c.f, FlagMask(fl)) # 0

\* Cpu::set_flag
set_flag(c, fl) == [c EXCEPT !.f = BitOr(@, FlagMask(fl))]

\* Cpu::write_flag
write_flag(c, fl, val) == IF val THEN set_flag(c, fl) ELSE clear_flag(c, fl)

\* Cpu::get_reg
get_reg(c, r) ==
    CASE r = "A" -> c.a
      [] r = "B" -> c.b
      [] r = "C" -> c.c
      [] r = "D" -> c.d
      [] r = "E" -> c.e
      [] r = "F" -> c.f
      [] r = "H" -> c.h
      [] r = "L" -> c.l

\* Cpu::set_reg
set_reg(c, r, val) ==
    CASE r = "A" -> [c EXCEPT !.a = val]
      [] r = "B" -> [c EXCEPT !.b = val]
      [] r = "C" -> [c EXCEPT !.c = val]
      [] r = "D" -> [c EXCEPT !.d = val]
      [] r = "E" -> [c EXCEPT !.e = val]
      [] r = "F" -> [c EXCEPT !.f = val]
      [] r = "H" -> [c EXCEPT !.h = val]
      [] r = "L" -> [c EXCEPT !.l = val]

\* Cpu::get_reg_16
get_reg_16(c, r) ==
    CASE r = "AF" -> merge_bytes(c.a, c.f)
      [] r = "BC" -> merge_bytes(c.b, c.c)
      [] r = "DE" -> merge_bytes(c.d, c.e)
      [] r = "HL" -> merge_bytes(c.h, c.l)

\* Cpu::set_reg_16
set_reg_16(c, r, val) ==
    LET high == get_high_byte(val)
        low == get_low_byte(val)
    IN CASE r = "AF" -> set_reg(set_reg(c, "A", high), "F", low)
         [] r = "BC" -> set_reg(set_reg(c, "B", high), "C", low)
         [] r = "DE" -> set_reg(set_reg(c, "D", high), "E", low)
         [] r = "HL" -> set_reg(set_reg(c, "H", high), "L", low)

\* Cpu::get_sp, Cpu::set_sp
get_sp(c) == c.sp
set_sp(c, val) == [c EXCEPT !.sp = val]

\* Cpu::read_ram, Cpu::write_ram
read_ram(b, addr, oc) == bus_read_ram(b, addr, oc)
write_ram(b, addr, val) == bus_write_ram(b, addr, val)

\* Outcome of a CPU operation: the registers, the bus, the value returned, a panic
CpuOutcome(c, b, v, abort) == [cpu |-> c, bus |-> b, val |-> v, abort |-> abort]

\* add_a_d8 whose half-carry looks at the operand only, not at the carry-in
add_a_d8_one_check(c, val, adc) ==
    LET carry == IF adc /\ get_flag(c, "C") THEN 1 ELSE 0
        a == get_reg(c, "A")
        result1 == (a + val) % 256
        over1 == a + val > 255
        h_check1 == check_h_carry_u8(a, val)
        result2 == (result1 + carry) % 256
        over2 == result1 + carry > 255
        set_h == h_check1
        set_c == over1 \/ over2
        c1 == clear_flag(c, "N")
        c2 == write_flag(c1, "C", set_c)
        c3 == write_flag(c2, "H", set_h)
        c4 == write_flag(c3, "Z", result2 = 0)
    IN set_reg(c4, "A", result2)

\* Cpu::add_a_d8
add_a_d8(c, val, adc) ==
    LET carry == IF adc /\ get_flag(c, "C") THEN 1 ELSE 0
        a == get_reg(c, "A")
        result1 == (a + val) % 256
        over1 == a + val > 255
        h_check1 == check_h_carry_u8(a, val)
        result2 == (result1 + carry) % 256
        over2 == result1 + carry > 255
        h_check2 == check_h_carry_u8(result1, carry)
        set_h == h_check1 \/ h_check2
        set_c == over1 \/ over2
        c1 == clear_flag(c, "N")
        c2 == write_flag(c1, "C", set_c)
        c3 == write_flag(c2, "H", set_h)
        c4 == write_flag(c3, "Z", result2 = 0)
    IN set_reg(c4, "A", result2)

\* add_nn_d16 whose half-carry is the carry out of bit 3 of the low bytes
add_nn_d16_low_half(c, reg, source) ==
    LET target == get_reg_16(c, reg)
        sum == (target + source) % 65536
        over == target + source > 65535
        set_h == check_h_carry_u8(target % 256, source % 256)
        c1 == set_reg_16(c, reg, sum)
        c2 == clear_flag(c1, "N")
        c3 == write_flag(c2, "C", over)
    IN write_flag(c3, "H", set_h)

\* Cpu::add_nn_d16
add_nn_d16(c, reg, source) ==
    LET target == get_reg_16(c, reg)
        sum == (target + source) % 65536
        over == target + source > 65535
        set_h == check_h_carry_u16(target, source)
        c1 == set_reg_16(c, reg, sum)
        c2 == clear_flag(c1, "N")
        c3 == write_flag(c2, "C", over)
    IN write_flag(c3, "H", set_h)

\* and_a_d8 that clears H as OR and XOR do
and_a_d8_clears_h(c, val) ==
    LET a == BitAnd(get_reg(c, "A"), val)
        c1 == clear_flag(c, "N")
        c2 == clear_flag(c1, "H")
        c3 == clear_flag(c2, "C")
        c4 == write_flag(c3, "Z", a = 0)
    IN set_reg(c4, "A", a)

\* Cpu::and_a_d8
and_a_d8(c, val) ==
    LET a == BitAnd(get_reg(c, "A"), val)
        c1 == clear_flag(c, "N")
        c2 == set_flag(c1, "H")
        c3 == clear_flag(c2, "C")
        c4 == write_flag(c3, "Z", a = 0)
    IN set_reg(c4, "A", a)

\* Cpu::cp_a_d8
cp_a_d8(c, val) ==
    LET a == get_reg(c, "A")
        set_h == check_h_borrow_u8(a, val)
        c1 == write_flag(c, "Z", a = val)
        c2 == write_flag(c1, "H", set_h)
    IN write_flag(c2, "C", a < val)

\* Cpu::daa
daa(c) ==
    LET a0 == get_reg(c, "A")
        high == ~get_flag(c, "N") /\ (get_flag(c, "C") \/ a0 > 153)
        a1 == IF high THEN (a0 + 96) % 256 ELSE a0
        c1 == IF high THEN set_flag(c, "C") ELSE c
        a2 == IF get_flag(c1, "H") \/ (a1 % 16) < 9 THEN (a1 + 6) % 256 ELSE a1
        s1 == IF get_flag(c, "C") THEN (a0 - 96) % 256 ELSE a0
        s2 == IF get_flag(c, "H") THEN (s1 - 6) % 256 ELSE s1
        a == IF ~get_flag(c, "N") THEN a2 ELSE s2
        c2 == write_flag(c1, "Z", a = 0)
        c3 == clear_flag(c2, "H")
    IN set_reg(c3, "A", a)

\* inc_8 that writes the carry out of bit 7 to C
inc_8_writes_carry(c, reg) ==
    LET val == get_reg(c, reg)
        sum == (val + 1) % 256
        set_h == check_h_carry_u8(val, 1)
        c1 == set_reg(c, reg, sum)
        c2 == clear_flag(c1, "N")
        c3 == write_flag(c2, "Z", sum = 0)
        c4 == write_flag(c3, "H", set_h)
    IN write_flag(c4, "C", val = 255)

\* Cpu::inc_8
inc_8(c, reg) ==
    LET val == get_reg(c, reg)
        sum == (val + 1) % 256
        set_h == check_h_carry_u8(val, 1)
        c1 == set_reg(c, reg, sum)
        c2 == clear_flag(c1, "N")
        c3 == write_flag(c2, "Z", sum = 0)
    IN write_flag(c3, "H", set_h)

\* Cpu::inc_16
inc_16(c, reg) ==
    LET val == get_reg_16(c, reg)
        sum == (val + 1) % 65536
    IN set_reg_16(c, reg, sum)

\* Cpu::or_a_d8 (u8 `|`)
or_a_d8(c, val) ==
    LET a == BitOr(get_reg(c, "A"), val)
        c1 == clear_flag(c, "N")
        c2 == clear_flag(c1, "H")
        c3 == clear_flag(c2, "C")
        c4 == write_flag(c3, "Z", a = 0)
    IN set_reg(c4, "A", a)

\* pop without the assertion that the stack is not empty
pop_unchecked(c, b, oc) ==
    LET sp == get_sp(c)
        low == read_ram(b, sp, oc)
        high == read_ram(b, (sp + 1) % 65536, oc)
        byte == merge_bytes(high.val, low.val)
    IN IF low.abort THEN CpuOutcome(c, b, 0, TRUE)
       ELSE IF sp + 1 > 65535 /\ oc THEN CpuOutcome(c, b, 0, TRUE)
       ELSE IF high.abort THEN CpuOutcome(c, b, 0, TRUE)
       ELSE IF sp + 2 > 65535 /\ oc THEN CpuOutcome(c, b, 0, TRUE)
       ELSE CpuOutcome(set_sp(c, (sp + 2) % 65536), b, byte, FALSE)

\* Cpu::pop under build profile oc: sp + 1 and sp + 2 are u16 additions, which panic on
\* overflow when overflow checks are on and wrap otherwise
pop(c, b, oc) ==
    LET sp == get_sp(c)
        low == read_ram(b, sp, oc)
        high == read_ram(b, (sp + 1) % 65536, oc)
        byte == merge_bytes(high.val, low.val)
    IN IF sp = 65534 THEN CpuOutcome(c, b, 0, TRUE)
       ELSE IF low.abort THEN CpuOutcome(c, b, 0, TRUE)
       ELSE IF sp + 1 > 65535 /\ oc THEN CpuOutcome(c, b, 0, TRUE)
       ELSE IF high.abort THEN CpuOutcome(c, b, 0, TRUE)
       ELSE IF sp + 2 > 65535 /\ oc THEN CpuOutcome(c, b, 0, TRUE)
       ELSE CpuOutcome(set_sp(c, (sp + 2) % 65536), b, byte, FALSE)

\* push that stores the low byte where the high byte goes as well
push_one_address(c, b, val, oc) ==
    LET sp == (get_sp(c) - 2) % 65536
        high == get_high_byte(val)
        low == get_low_byte(val)
        b1 == write_ram(b, (sp + 1) % 65536, high)
        b2 == write_ram(b1, (sp + 1) % 65536, low)
    IN IF get_sp(c) < 2 /\ oc THEN CpuOutcome(c, b, 0, TRUE)
       ELSE IF sp + 1 > 65535 /\ oc THEN CpuOutcome(c, b, 0, TRUE)
       ELSE CpuOutcome(set_sp(c, sp), b2, 0, FALSE)

\* Cpu::push under build profile oc: get_sp() - 2 is a u16 subtraction and sp + 1 a u16
\* addition
push(c, b, val, oc) ==
    LET sp == (get_sp(c) - 2) % 65536
        high == get_high_byte(val)
        low == get_low_byte(val)
        b1 == write_ram(b, (sp + 1) % 65536, high)
        b2 == write_ram(b1, sp, low)
    IN IF get_sp(c) < 2 /\ oc THEN CpuOutcome(c, b, 0, TRUE)
       ELSE IF sp + 1 > 65535 /\ oc THEN CpuOutcome(c, b, 0, TRUE)
       ELSE CpuOutcome(set_sp(c, sp), b2, 0, FALSE)

\* sub_a_d8 whose half-borrow looks at the operand only, not at the carry-in
sub_a_d8_one_check(c, val, sbc) ==
    LET carry == IF sbc /\ get_flag(c, "C") THEN 1 ELSE 0
        a == get_reg(c, "A")
        result1 == (a - val) % 256
        over1 == a < val
        check_h1 == check_h_borrow_u8(a, val)
        result2 == (result1 - carry) % 256
        over2 == result1 < carry
        set_h == check_h1
        c1 == set_flag(c, "N")
        c2 == write_flag(c1, "Z", result2 = 0)
        c3 == write_flag(c2, "H", set_h)
        c4 == write_flag(c3, "C", over1 \/ over2)
    IN set_reg(c4, "A", result2)

\* Cpu::sub_a_d8
sub_a_d8(c, val, sbc) ==
    LET carry == IF sbc /\ get_flag(c, "C") THEN 1 ELSE 0
        a == get_reg(c, "A")
        result1 == (a - val) % 256
        over1 == a < val
        check_h1 == check_h_borrow_u8(a, val)
        result2 == (result1 - carry) % 256
        over2 == result1 < carry
        check_h2 == check_h_borrow_u8(result1, carry)
        set_h == check_h1 \/ check_h2
        c1 == set_flag(c, "N")
        c2 == write_flag(c1, "Z", result2 = 0)
        c3 == write_flag(c2, "H", set_h)
        c4 == write_flag(c3, "C", over1 \/ over2)
    IN set_reg(c4, "A", result2)

\* Cpu::xor_a_d8
xor_a_d8(c, val) ==
    LET a == BitXor(get_reg(c, "A"), val)
        c1 == clear_flag(c, "N")
        c2 == clear_flag(c1, "H")
        c3 == clear_flag(c2, "C")
        c4 == write_flag(c3, "Z", a = 0)
    IN set_reg(c4, "A", a)

\* Cpu::dec_8
dec_8(c, reg) ==
    LET val == get_reg(c, reg)
        diff == (val - 1) % 256
        set_h == check_h_borrow_u8(val, 1)
        c1 == set_reg(c, reg, diff)
        c2 == set_flag(c1, "N")
        c3 == write_flag(c2, "Z", diff = 0)
    IN write_flag(c3, "H", set_h)

\* Cpu::dec_16
dec_16(c, reg) ==
    LET val == get_reg_16(c, reg)
        diff == (val - 1) % 65536
    IN set_reg_16(c, reg, diff)

\* Cpu::get_pc, Cpu::set_pc
get_pc(c) == c.pc
set_pc(c, val) == [c EXCEPT !.pc = val]

\* Cpu::fetch under build profile oc: pc += 1 is a u16 addition, which panics on
\* overflow when overflow checks are on and wraps otherwise
fetch(c, b, oc) ==
    LET pc == get_pc(c)
        val == read_ram(b, pc, oc)
    IN IF val.abort THEN CpuOutcome(c, b, 0, TRUE)
       ELSE IF pc + 1 > 65535 /\ oc THEN CpuOutcome(c, b, 0, TRUE)
       ELSE CpuOutcome(set_pc(c, (pc + 1) % 65536), b, val.val, FALSE)

\* Cpu::rot_left: the CPU with its flags written, and the rotated byte
rot_left(c, byte, carry) ==
    LET msb == get_bit(byte, 7)
        rotated == ((byte * 2) % 256) + (IF msb THEN 1 ELSE 0)
        rot == IF carry THEN write_bit(rotated, 0, get_flag(c, "C")) ELSE rotated
        c1 == write_flag(c, "C", msb)
        c2 == clear_flag(c1, "N")
        c3 == clear_flag(c2, "H")
    IN [cpu |-> write_flag(c3, "Z", rot = 0), val |-> rot]

\* Cpu::rot_left_reg
rot_left_reg(c, reg, carry) ==
    LET rot == rot_left(c, get_reg(c, reg), carry)
    IN set_reg(rot.cpu, reg, rot.val)

\* Cpu::rot_right: the CPU with its flags written, and the rotated byte
rot_right(c, byte, carry) ==
    LET lsb == get_bit(byte, 0)
        rotated == (byte \div 2) + (IF lsb THEN 128 ELSE 0)
        rot == IF carry THEN write_bit(rotated, 7, get_flag(c, "C")) ELSE rotated
        c1 == write_flag(c, "C", lsb)
        c2 == clear_flag(c1, "N")
        c3 == clear_flag(c2, "H")
    IN [cpu |-> write_flag(c3, "Z", rot = 0), val |-> rot]

\* Cpu::rot_right_reg
rot_right_reg(c, reg, carry) ==
    LET rot == rot_right(c, get_reg(c, reg), carry)
    IN set_reg(rot.cpu, reg, rot.val)

\* Cpu::shift_left: the CPU with its flags written, and the shifted byte
shift_left(c, byte) ==
    LET msb == get_bit(byte, 7)
        shifted == (byte * 2) % 256
        c1 == write_flag(c, "Z", shifted = 0)
        c2 == clear_flag(c1, "N")
        c3 == clear_flag(c2, "H")
    IN [cpu |-> write_flag(c3, "C", msb), val |-> shifted]

\* Cpu::shift_left_reg
shift_left_reg(c, reg) ==
    LET new_byte == shift_left(c, get_reg(c, reg))
    IN set_reg(new_byte.cpu, reg, new_byte.val)

\* Cpu::shift_right: the CPU with its flags written, and the shifted byte
shift_right(c, byte, arith) ==
    LET lsb == get_bit(byte, 0)
        msb == get_bit(byte, 7)
        shifted == IF arith THEN write_bit(byte \div 2, 7, msb) ELSE byte \div 2
        c1 == write_flag(c, "Z", shifted = 0)
        c2 == clear_flag(c1, "N")
        c3 == clear_flag(c2, "H")
    IN [cpu |-> write_flag(c3, "C", lsb), val |-> shifted]

\* Cpu::shift_right_reg
shift_right_reg(c, reg, arith) ==
    LET new_byte == shift_right(c, get_reg(c, reg), arith)
    IN set_reg(new_byte.cpu, reg, new_byte.val)

\* Cpu::swap_bits: the CPU with its flags written, and the swapped byte
swap_bits(c, val) ==
    LET new_high == val % 16
        new_low == val \div 16
        new_val == new_high * 16 + new_low
        c1 == write_flag(c, "Z", new_val = 0)
        c2 == clear_flag(c1, "N")
        c3 == clear_flag(c2, "H")
    IN [cpu |-> clear_flag(c3, "C"), val |-> new_val]

\* Cpu::swap_bits_reg
swap_bits_reg(c, reg) ==
    LET swapped == swap_bits(c, get_reg(c, reg))
    IN set_reg(swapped.cpu, reg, swapped.val)

\* Cpu::test_bit
test_bit(c, val, digit) ==
    LET bit == get_bit(val, digit)
        c1 == write_flag(c, "Z", ~bit)
        c2 == clear_flag(c1, "N")
    IN set_flag(c2, "H")

\* Cpu::test_bit_reg
test_bit_reg(c, reg, digit) == test_bit(c, get_reg(c, reg), digit)

\* Cpu::write_bit_ram under build profile oc: the byte is read, changed and written back
write_bit_ram(c, b, addr, digit, set, oc) ==
    LET val == read_ram(b, addr, oc)
    IN IF val.abort THEN CpuOutcome(c, b, 0, TRUE)
       ELSE CpuOutcome(c, write_ram(b, addr, write_bit(val.val, digit, set)), 0, FALSE)

\* Cpu::write_bit_n
write_bit_n(c, reg, digit, set) ==
    set_reg(c, reg, write_bit(get_reg(c, reg), digit, set))

(***************************************************************************)
(* core/src/io.rs                                                          *)
(***************************************************************************)
Buttons == {"A", "B", "Select", "Start", "Right", "Left", "Up", "Down"}

\* Buttons::get_index
get_index(btn) ==
    CASE btn = "A" -> 0
      [] btn = "B" -> 1
      [] btn = "Select" -> 2
      [] btn = "Start" -> 3
      [] btn = "Right" -> 4
      [] btn = "Left" -> 5
      [] btn = "Up" -> 6
      [] btn = "Down" -> 7

\* IO::new
IO_new ==
    [btns |-> [i \in 0..7 |-> FALSE], get_btn_keys |-> FALSE, get_dir_keys |-> FALSE]

\* IO::btn_toggle
btn_toggle(j, btn, pressed) == [j EXCEPT !.btns[get_index(btn)] = pressed]

\* IO::poll_btns
poll_btns(j, val) ==
    [j EXCEPT !.get_btn_keys = (BitAnd(val, 32) = 0),
              !.get_dir_keys = (BitAnd(val, 16) = 0)]

\* IO::pack_btn_keys
pack_btn_keys(j) ==
    LET pressed(i) == IF j.btns[i] THEN 0 ELSE 1
    IN pressed(0) + pressed(1) * 2 + pressed(2) * 4 + pressed(3) * 8

\* IO::pack_dir_keys
pack_dir_keys(j) ==
    LET pressed(i) == IF j.btns[i + 4] THEN 0 ELSE 1
    IN pressed(0) + pressed(1) * 2 + pressed(2) * 4 + pressed(3) * 8

\* IO::read_btns
read_btns(j) ==
    IF j.get_btn_keys THEN pack_btn_keys(j)
    ELSE IF j.get_dir_keys THEN pack_dir_keys(j)
    ELSE 0

\* PPU::render_screen: map_array = [0; SCREEN_HEIGHT * SCREEN_WIDTH], on the kept pixels
Fb_new == [i \in FbKept |-> 0]

(***************************************************************************)
(* State after construction                                                *)
(***************************************************************************)
\* Cpu::new: the bytes it writes to the IO registers once the registers are set, in order
NewWrites ==
    << <<65285, 0>>, <<65286, 0>>, <<65287, 0>>, <<65296, 128>>, <<65297, 191>>,
       <<65298, 243>>, <<65300, 191>>, <<65302, 63>>, <<65303, 0>>, <<65305, 191>>,
       <<65306, 127>>, <<65307, 255>>, <<65308, 159>>, <<65310, 191>>, <<65312, 255>>,
       <<65313, 0>>, <<65314, 0>>, <<65315, 191>>, <<65316, 119>>, <<65317, 243>>,
       <<65318, 241>>, <<65344, 145>>, <<65346, 0>>, <<65347, 0>>, <<65349, 0>>,
       <<65351, 252>>, <<65352, 255>>, <<65353, 255>>, <<65354, 0>>, <<65355, 0>>,
       <<65359, 0>> >>

\* Bus::write_ram on an IO register: $FF04-$FF07 go to the timer and $FF40-$FF4B, but
\* for DMA at $FF46, to the PPU; the sound registers and $FF4F are RAM that is not kept
bus_write_io(st, addr, val) ==
    IF addr \in TimerRegs THEN [st EXCEPT !.timer = write_timer(@, addr, val)]
    ELSE IF addr \in 65344..65355 /\ addr # 65350
    THEN [st EXCEPT !.ppu = write_vram(@, addr, val)]
    ELSE st

RECURSIVE bus_write_io_all(_, _)
bus_write_io_all(st, ws) ==
    IF ws = <<>> THEN st
    ELSE bus_write_io_all(bus_write_io(st, Head(ws)[1], Head(ws)[2]), Tail(ws))

\* The PPU and the timer that Cpu::new leaves
Cpu_new_io == bus_write_io_all([ppu |-> PPU_new, timer |-> Timer_new], NewWrites)

\* Cpu::new (Clock::new, PPU::new, Timer::new, Cart::new, IO::new and the writes of
\* NewWrites), for an instruction stream of cost s under build profile oc
Reset(s, oc) ==
    /\ clock = Clock_new
    /\ result = "NoAction"
    /\ op = Op("new", 0, 0, 0)
    /\ fed = 0
    /\ stride = s
    /\ frames = 0
    /\ elapsed = 0
    /\ signals = 0
    /\ passes = 0
    /\ pass_signals = 0
    /\ period = 0
    /\ vram = Cpu_new_io.ppu.vram
    /\ oam = Cpu_new_io.ppu.oam
    /\ tiles = Cpu_new_io.ppu.tiles
    /\ timer = Cpu_new_io.timer
    /\ irq = FALSE
    /\ overflow_checks = oc
    /\ aborted = FALSE
    /\ ticks = 0
    /\ since_div = 0
    /\ since_cfg = 0
    /\ tima_base = 0
    /\ cart = Cart_new
    /\ rd = NoRead
    /\ cpu = Cpu_new
    /\ mem = Ram_new
    /\ ret = [val |-> 0, abort |-> FALSE]
    /\ shadow = <<>>
    /\ io = IO_new
    /\ joy = [sel |-> 48, read |-> 0, irq |-> FALSE]
    /\ fb = Fb_new

Init == Reset(4, FALSE)

\* Either build profile: overflow checks on (debug) or off (release)
InitBuild == \E oc \in BOOLEAN : Reset(4, oc)

\* Any constant-cost instruction stream
InitFrame == \E s \in StepCycles : Reset(s, FALSE)

(***************************************************************************)
(* The PPU clock                                                           *)
(***************************************************************************)
LineCycles == OAM_READ_LEN + VRAM_READ_LEN + HBLANK_LEN
LinesPerFrame == VBLANK_LINE_END + 1

\* One call clock_step(c)
Step(c) ==
    LET r == clock_step(clock, c) IN
    /\ clock' = r.clock
    /\ result' = r.result
    /\ op' = Op("clock_step", 0, c, 0)

\* Clock::clock_step with the cost of any instruction
ClockStep ==
    /\ \E c \in StepCycles : Step(c)
    /\ UNCHANGED <<clockHist, ppuVars, timerVars, timerHist, cartVars, cpuVars, ioVars, fb>>

\* Clock::reset_line
ResetLine ==
    /\ clock' = reset_line(clock)
    /\ op' = Op("reset_line", 0, 0, 0)
    /\ UNCHANGED <<result, clockHist, ppuVars, timerVars, timerHist, cartVars, cpuVars, ioVars, fb>>

NextClock == ClockStep \/ ResetLine

SpecClock == Init /\ [][NextClock]_vars

\* Clock::clock_step from reset, counting the cycles fed, for MaxLines scanline lengths
LineStep ==
    /\ \E c \in StepCycles :
         /\ fed + c <= MaxLines * LineCycles
         /\ Step(c)
         /\ fed' = fed + c
    /\ UNCHANGED <<stride, frames, elapsed, signals, passes, pass_signals, period,
                   ppuVars, timerVars, timerHist, cartVars, cpuVars, ioVars, fb>>

NextLine == LineStep

SpecLine == Init /\ [][NextLine]_vars

\* Clock::clock_step from reset for an instruction stream of constant cost, counting
\* the RenderFrame results, the passes of LY and the cycles between results
FrameStep ==
    /\ frames < MaxFrames
    /\ Step(stride)
    /\ LET r == clock_step(clock, stride)
           frame == r.result = "RenderFrame"
           wrap == clock.line > 0 /\ r.clock.line = 0
       IN /\ frames' = IF frame THEN frames + 1 ELSE frames
          /\ period' = IF frame THEN elapsed + stride ELSE period
          /\ elapsed' = IF frame THEN 0 ELSE elapsed + stride
          /\ passes' = IF wrap THEN passes + 1 ELSE passes
          /\ pass_signals' = IF wrap THEN signals ELSE pass_signals
          /\ signals' = IF wrap THEN 0 ELSE IF frame THEN signals + 1 ELSE signals
    /\ UNCHANGED <<fed, stride, ppuVars, timerVars, timerHist, cartVars, cpuVars, ioVars, fb>>

NextFrame == FrameStep

SpecFrame == InitFrame /\ [][NextFrame]_vars

(***************************************************************************)
(* The PPU store                                                           *)
(***************************************************************************)
PPU == [vram |-> vram, oam |-> oam, tiles |-> tiles]

SetPPU(p) ==
    /\ vram' = p.vram
    /\ oam' = p.oam
    /\ tiles' = p.tiles

\* PPU::write_vram of any byte to any modelled address
WriteVram ==
    /\ \E a \in RawAddrs, v \in ByteVals :
         /\ SetPPU(write_vram(PPU, a, v))
         /\ op' = Op("write_vram", a, v, 0)
    /\ UNCHANGED <<clockVars, clockHist, timerVars, timerHist, cartVars, cpuVars, ioVars, fb>>

\* PPU::set_ly
SetLy ==
    /\ \E l \in LineVals :
         /\ SetPPU(set_ly(PPU, l).ppu)
         /\ op' = Op("set_ly", 0, l, 0)
    /\ UNCHANGED <<clockVars, clockHist, timerVars, timerHist, cartVars, cpuVars, ioVars, fb>>

\* PPU::set_status
SetStatus ==
    /\ \E m \in 0..3 :
         /\ SetPPU(set_status(PPU, m))
         /\ op' = Op("set_status", 0, m, 0)
    /\ UNCHANGED <<clockVars, clockHist, timerVars, timerHist, cartVars, cpuVars, ioVars, fb>>

\* PPU::write_vram of any byte to LYC ($FF45)
WriteLyc ==
    /\ \E v \in ByteVals :
         /\ SetPPU(write_vram(PPU, 65349, v))
         /\ op' = Op("write_vram", 65349, v, 0)
    /\ UNCHANGED <<clockVars, clockHist, timerVars, timerHist, cartVars, cpuVars, ioVars, fb>>

\* PPU::set_ly with any scanline the clock can hold
SetLyAny ==
    /\ \E l \in 0..(LinesPerFrame - 1) :
         /\ SetPPU(set_ly(PPU, l).ppu)
         /\ op' = Op("set_ly", 0, l, 0)
    /\ UNCHANGED <<clockVars, clockHist, timerVars, timerHist, cartVars, cpuVars, ioVars, fb>>

NextLyc == SetLyAny \/ WriteLyc

SpecLyc == Init /\ [][NextLyc]_vars

NextPPU == SetStatus \/ SetLy \/ WriteVram

SpecPPU == Init /\ [][NextPPU]_vars

(***************************************************************************)
(* The timer                                                               *)
(***************************************************************************)
\* One call tick(), among the first `limit` calls
DoTick(limit) ==
    LET r == tick(timer, overflow_checks) IN
    /\ ~aborted
    /\ ticks < limit
    /\ timer' = r.timer
    /\ irq' = r.interrupt
    /\ aborted' = r.abort
    /\ ticks' = ticks + 1
    /\ op' = Op("tick", 0, 0, 0)
    /\ UNCHANGED overflow_checks

\* One call write_timer(a, v); old is what the operation records of the register before it
DoWrite(a, v, old) ==
    /\ ~aborted
    /\ timer' = write_timer(timer, a, v)
    /\ op' = Op("write_timer", a, v, old)
    /\ UNCHANGED <<irq, overflow_checks, aborted, ticks>>

WriteVals(a) == IF a = CON_REG THEN TacVals ELSE TimerVals

\* Timer::tick
TimerTick ==
    /\ DoTick(MaxTicks)
    /\ UNCHANGED <<since_div, since_cfg, tima_base, clockVars, clockHist, ppuVars, cartVars, cpuVars, ioVars, fb>>

\* Timer::write_timer
TimerWrite ==
    /\ \E a \in TimerRegs : \E v \in WriteVals(a) : DoWrite(a, v, read_timer(timer, a))
    /\ UNCHANGED <<since_div, since_cfg, tima_base, clockVars, clockHist, ppuVars, cartVars, cpuVars, ioVars, fb>>

NextTimer == TimerTick \/ TimerWrite

SpecTimer == Init /\ [][NextTimer]_vars

\* Timer::tick, counting the calls since the last DIV write
DivTick ==
    /\ DoTick(MaxTicks)
    /\ since_div' = since_div + 1
    /\ UNCHANGED <<since_cfg, tima_base, clockVars, clockHist, ppuVars, cartVars, cpuVars, ioVars, fb>>

\* Timer::write_timer, counting the tick calls since the last DIV write
DivWrite ==
    /\ \E a \in TimerRegs : \E v \in WriteVals(a) :
         /\ DoWrite(a, v, 0)
         /\ since_div' = IF a = DIV_REG THEN 0 ELSE since_div
    /\ UNCHANGED <<since_cfg, tima_base, clockVars, clockHist, ppuVars, cartVars, cpuVars, ioVars, fb>>

NextDiv == DivTick \/ DivWrite

SpecDiv == Init /\ [][NextDiv]_vars

\* Timer::tick, counting the calls since the last register write
TimaTick ==
    /\ DoTick(MaxTicks)
    /\ since_cfg' = since_cfg + 1
    /\ UNCHANGED <<since_div, tima_base, clockVars, clockHist, ppuVars, cartVars, cpuVars, ioVars, fb>>

\* Timer::write_timer, restarting the count of tick calls and noting TIMA
TimaWrite ==
    /\ \E a \in TimerRegs : \E v \in WriteVals(a) :
         /\ DoWrite(a, v, 0)
         /\ since_cfg' = 0
         /\ tima_base' = write_timer(timer, a, v).cnt_reg
    /\ UNCHANGED <<since_div, clockVars, clockHist, ppuVars, cartVars, cpuVars, ioVars, fb>>

NextTima == TimaTick \/ TimaWrite

SpecTima == Init /\ [][NextTima]_vars

\* Calls of tick() after which the u8 sub-counter cnt_cycles is back where it was
RunLen == 2 ^ 8

\* Values written in SpecOverflow: TAC stopped or running at the fastest rate, any TMA
OvVals(a) == IF a = CON_REG THEN {0, 5} ELSE TimerVals

\* Timer::write_timer before the first tick: the program sets TMA and TAC up
OvWrite ==
    /\ ticks = 0
    /\ \E a \in {MOD_REG, CON_REG} : \E v \in OvVals(a) : DoWrite(a, v, read_timer(timer, a))
    /\ UNCHANGED <<since_div, since_cfg, tima_base, clockVars, clockHist, ppuVars, cartVars, cpuVars, ioVars, fb>>

\* Timer::tick, one call, among the first (MaxRuns + 1) * RunLen calls
OvTick ==
    /\ DoTick((MaxRuns + 1) * RunLen)
    /\ UNCHANGED <<since_div, since_cfg, tima_base, clockVars, clockHist, ppuVars, cartVars, cpuVars, ioVars, fb>>

NextOverflow == OvWrite \/ OvTick

SpecOverflow == InitBuild /\ [][NextOverflow]_vars

(***************************************************************************)
(* The cartridge                                                           *)
(***************************************************************************)
\* Cartridge-type bytes of a cartridge without controller and of an MBC1, an MBC2 and
\* an MBC3 cartridge
ExtTypes == {0, 1, 5, 19}
\* ROM files of these cartridges: of 32 KiB for each, of 1 MiB without controller and
\* with MBC1
MbcImages ==
    { RomImage(t, 2) : t \in ExtTypes } \cup { RomImage(t, 64) : t \in {0, 1} }
\* The first and the last address of each control-register range
CtlAddrs == {RAM_ENABLE_START, RAM_ENABLE_STOP, ROM_BANK_NUM_START, ROM_BANK_NUM_STOP,
             RAM_BANK_NUM_START, RAM_BANK_NUM_STOP, ROM_RAM_MODE_START, ROM_RAM_MODE_STOP}
\* Values written to the control registers: $00-$03, $0A, $1A, $20, $25
CtlVals == {0, 1, 2, 3, 10, 26, 32, 37}
\* Addresses read in the ROM area: the ends of both banks, the header byte, $7FFE
RomReadAddrs == {ROM_START, MBC_TYPE_ADDR, ROM_BANK_SIZE - 1, ROM_BANK_SIZE,
                 ROM_STOP - 1, ROM_STOP}
\* The first and the last address of external RAM
ExtAddrs == {EXT_RAM_START, EXT_RAM_STOP}
\* Addresses written in SpecExtRam: RAM enable, RAM bank, mode, external RAM
ExtWriteAddrs == {RAM_ENABLE_START, RAM_BANK_NUM_START, ROM_RAM_MODE_START} \cup ExtAddrs
\* Values written to external RAM in SpecExtRam: $0A, $AB
ExtVals == {10, 171}
\* Values written to the registers in SpecExtRam: these and $03
ExtRegVals == ExtVals \cup {3}
\* Lengths of the short files of SpecLoad: empty, one byte short of the cartridge-type
\* byte, ending with it, and one byte short of the end of the header at $0150
ShortLens == {0, MBC_TYPE_ADDR, MBC_TYPE_ADDR + 1, 335}
\* ROM files of 32 KiB with every value of the cartridge-type byte, and short files
LoadImages ==
    { RomImage(t, 2) : t \in 0..255 } \cup { RomFile(t, n) : t \in {0, 1}, n \in ShortLens }

\* The byte of external RAM that address a selects
Selected(c, a) == c.ram_bank * RAM_BANK_SIZE + (a - EXT_RAM_START)

\* One call load_cart(img), while fewer than MaxLoads files were loaded
DoLoad(img) ==
    /\ ~rd.abort
    /\ Len(cart.rom) < MaxLoads
    /\ IF set_mbc_panics(push_rom(cart, img))
       THEN cart' = push_rom(cart, img) /\ rd' = Panic
       ELSE cart' = load_cart(cart, img) /\ rd' = NoRead
    /\ op' = Op("load_cart", img.type, image_len(img), 0)

\* One call write_cart(a, v)
DoCartWrite(a, v) ==
    /\ ~rd.abort
    /\ cart' = write_cart(cart, a, v)
    /\ rd' = NoRead
    /\ op' = Op("write_cart", a, v, IF a \in EXT_RAM_START..EXT_RAM_STOP
                                    THEN ram_at(cart.ram, Selected(cart, a)) ELSE 0)

\* One call read_cart(a)
DoCartRead(a) ==
    /\ ~rd.abort
    /\ rd' = read_cart(cart, a, overflow_checks)
    /\ op' = Op("read_cart", a, 0, 0)
    /\ UNCHANGED cart

\* Cart::load_cart
MbcLoad ==
    /\ \E img \in MbcImages : DoLoad(img)
    /\ UNCHANGED <<clockVars, clockHist, ppuVars, timerVars, timerHist, cpuVars, ioVars, fb>>

\* Cart::write_cart to a control register
MbcWrite ==
    /\ \E a \in CtlAddrs, v \in CtlVals : DoCartWrite(a, v)
    /\ UNCHANGED <<clockVars, clockHist, ppuVars, timerVars, timerHist, cpuVars, ioVars, fb>>

\* Cart::read_cart in the ROM area
MbcRead ==
    /\ \E a \in RomReadAddrs : DoCartRead(a)
    /\ UNCHANGED <<clockVars, clockHist, ppuVars, timerVars, timerHist, cpuVars, ioVars, fb>>

NextMbc == MbcLoad \/ MbcWrite \/ MbcRead

SpecMbc == Init /\ [][NextMbc]_vars

\* Cart::load_cart
ExtLoad ==
    /\ \E img \in { RomImage(t, 2) : t \in ExtTypes } : DoLoad(img)
    /\ UNCHANGED <<clockVars, clockHist, ppuVars, timerVars, timerHist, cpuVars, ioVars, fb>>

\* Cart::write_cart to external RAM and to the registers that enable and bank it
ExtWrite ==
    /\ \E a \in ExtWriteAddrs :
         \E v \in IF a \in ExtAddrs THEN ExtVals ELSE ExtRegVals : DoCartWrite(a, v)
    /\ UNCHANGED <<clockVars, clockHist, ppuVars, timerVars, timerHist, cpuVars, ioVars, fb>>

\* Cart::read_cart of external RAM
ExtRead ==
    /\ \E a \in ExtAddrs : DoCartRead(a)
    /\ UNCHANGED <<clockVars, clockHist, ppuVars, timerVars, timerHist, cpuVars, ioVars, fb>>

NextExtRam == ExtLoad \/ ExtWrite \/ ExtRead

SpecExtRam == Init /\ [][NextExtRam]_vars

\* Cart::load_cart of a file with any cartridge-type byte
LoadAny ==
    /\ \E img \in LoadImages : DoLoad(img)
    /\ UNCHANGED <<clockVars, clockHist, ppuVars, timerVars, timerHist, cpuVars, ioVars, fb>>

NextLoad == LoadAny

SpecLoad == Init /\ [][NextLoad]_vars

(***************************************************************************)
(* The CPU and the PPU in step                                             *)
(***************************************************************************)
\* Cpu::tick after opcodes::execute returned `cycles`: the bus hands the scanline to
\* PPU::set_ly and the index of the mode to PPU::set_status
Cpu_tick(clk, p, cycles) ==
    LET r == clock_step(clk, cycles)
        p1 == set_ly(p, get_scanline(r.clock)).ppu
        p2 == set_status(p1, get_idx(get_mode(r.clock)))
    IN [clock |-> r.clock, ppu |-> p2, draw_time |-> r.result]

\* What the executed instruction writes: nothing, or a byte to STAT, LY or LYC
InstrWrites == { <<>> } \cup { <<a, v>> : a \in {65345, 65348, 65349}, v \in {0, 255} }

\* Costs of the instructions of SpecTick: the longest and half of it
TickCycles == { 4 * MaxMCycles, 4 * (MaxMCycles \div 2) }

\* Cpu::tick for an instruction that writes at most one PPU register, for MaxLines
\* scanline lengths of fed cycles
TickInstr ==
    /\ \E c \in TickCycles, w \in InstrWrites :
         LET p0 == IF w = <<>> THEN PPU ELSE write_vram(PPU, w[1], w[2])
             t == Cpu_tick(clock, p0, c)
         IN /\ fed + c <= MaxLines * LineCycles
            /\ fed' = fed + c
            /\ clock' = t.clock
            /\ result' = t.draw_time
            /\ SetPPU(t.ppu)
            /\ op' = Op("cpu_tick", IF w = <<>> THEN 0 ELSE w[1], c, 0)
    /\ UNCHANGED <<stride, frames, elapsed, signals, passes, pass_signals, period,
                   timerVars, timerHist, cartVars, cpuVars, ioVars, fb>>

NextTick == TickInstr

SpecTick == Init /\ [][NextTick]_vars

(***************************************************************************)
(* The CPU: flags and registers                                            *)
(***************************************************************************)
NotCpu == <<clockVars, clockHist, ppuVars, timerVars, timerHist, cartVars, ioVars, fb>>

\* One register or flag operation that leaves the bus alone
DoReg(c, name, a, v) ==
    /\ cpu' = c
    /\ op' = Op(name, a, v, 0)
    /\ UNCHANGED <<mem, ret, shadow, NotCpu>>

\* Values written to A and F in SpecFlags: $0F, $5A, $F0
RegVals == {15, 90, 240}
\* Values written to a register pair: $12FF, $ABC0
Vals16 == {4863, 43968}
\* Operand of the arithmetic of SpecFlags: $80
FlagAluVals == {128}

\* Cpu::set_reg on A or F
FlSetReg == \E r \in {"A", "F"}, v \in RegVals : DoReg(set_reg(cpu, r, v), "set_reg", r, v)
\* Cpu::set_reg_16 on AF
FlSetReg16 == \E v \in Vals16 : DoReg(set_reg_16(cpu, "AF", v), "set_reg_16", "AF", v)
\* Cpu::set_flag, Cpu::clear_flag, Cpu::write_flag
FlSetFlag == \E fl \in Flags : DoReg(set_flag(cpu, fl), "set_flag", fl, 0)
FlClearFlag == \E fl \in Flags : DoReg(clear_flag(cpu, fl), "clear_flag", fl, 0)
FlWriteFlag ==
    \E fl \in Flags, val \in BOOLEAN :
        DoReg(write_flag(cpu, fl, val), "write_flag", fl, IF val THEN 1 ELSE 0)
\* Cpu::add_a_d8, Cpu::sub_a_d8 and Cpu::cp_a_d8 without carry-in
FlAdd == \E n \in FlagAluVals : DoReg(add_a_d8(cpu, n, FALSE), "add", n, 0)
FlSub == \E n \in FlagAluVals : DoReg(sub_a_d8(cpu, n, FALSE), "sub", n, 0)
FlCp == \E n \in FlagAluVals : DoReg(cp_a_d8(cpu, n), "cp", n, 0)

NextFlags ==
    FlSetReg \/ FlSetReg16 \/ FlSetFlag \/ FlClearFlag \/ FlWriteFlag \/ FlAdd \/ FlSub \/ FlCp

SpecFlags == Init /\ [][NextFlags]_vars

\* Cpu::set_reg_16 on any pair
PairSet ==
    \E r \in Regs16, v \in Vals16 : DoReg(set_reg_16(cpu, r, v), "set_reg_16", r, v)

NextPairs == PairSet

SpecPairs == Init /\ [][NextPairs]_vars

(***************************************************************************)
(* The CPU: 8-bit arithmetic                                               *)
(***************************************************************************)
\* Values of A before the operation: $00, $01, $0F, $10, $7F, $80, $F0, $FF
AluAVals == {0, 1, 15, 16, 127, 128, 240, 255}
\* Values of F before the operation: no flag, C, Z N H, all four
AluFVals == {0, 16, 224, 240}
\* Every operand
AluVals == 0..255

\* Cpu::set_reg on A and on F, once after construction
AluSet ==
    /\ op.name = "new"
    /\ \E a \in AluAVals, f \in AluFVals :
         DoReg(set_reg(set_reg(cpu, "A", a), "F", f), "set_af", a, f)

\* The carry that an operation with carry takes in
CarryIn(c, with) == IF with /\ get_flag(c, "C") THEN 1 ELSE 0

\* One arithmetic operation on A after AluSet; the operation records its operand, its
\* carry-in and what A was
DoAlu(c, name, n, cin) ==
    /\ op.name = "set_af"
    /\ cpu' = c
    /\ op' = Op(name, n, cin, get_reg(cpu, "A"))
    /\ UNCHANGED <<mem, ret, shadow, NotCpu>>

\* Cpu::add_a_d8: ADD and ADC
AluAdd ==
    \E n \in AluVals, adc \in BOOLEAN :
        DoAlu(add_a_d8(cpu, n, adc), IF adc THEN "adc" ELSE "add", n, CarryIn(cpu, adc))
\* Cpu::sub_a_d8: SUB and SBC
AluSub ==
    \E n \in AluVals, sbc \in BOOLEAN :
        DoAlu(sub_a_d8(cpu, n, sbc), IF sbc THEN "sbc" ELSE "sub", n, CarryIn(cpu, sbc))
\* Cpu::cp_a_d8
AluCp == \E n \in AluVals : DoAlu(cp_a_d8(cpu, n), "cp", n, 0)

\* Cpu::and_a_d8, Cpu::or_a_d8, Cpu::xor_a_d8
AluAnd == \E n \in AluVals : DoAlu(and_a_d8(cpu, n), "and", n, 0)
AluOr == \E n \in AluVals : DoAlu(or_a_d8(cpu, n), "or", n, 0)
AluXor == \E n \in AluVals : DoAlu(xor_a_d8(cpu, n), "xor", n, 0)

NextAlu == AluSet \/ AluAdd \/ AluSub \/ AluCp \/ AluAnd \/ AluOr \/ AluXor

SpecAlu == Init /\ [][NextAlu]_vars

(***************************************************************************)
(* The CPU: decimal adjust                                                 *)
(***************************************************************************)
\* The packed-BCD byte of a number below 100, and the number of a packed-BCD byte
ToBcd(n) == (n \div 10) * 16 + (n % 10)
FromBcd(b) == (b \div 16) * 10 + (b % 16)
\* Every packed-BCD byte
BcdVals == { ToBcd(n) : n \in 0..99 }

\* Cpu::set_reg on A, once after construction
BcdSet ==
    /\ op.name = "new"
    /\ \E x \in BcdVals : DoReg(set_reg(cpu, "A", x), "set_a", x, 0)

\* Cpu::add_a_d8 without carry-in on what BcdSet left; the operation records its operand
\* and what A was
BcdAdd ==
    /\ op.name = "set_a"
    /\ \E y \in BcdVals :
         /\ cpu' = add_a_d8(cpu, y, FALSE)
         /\ op' = Op("add", y, 0, get_reg(cpu, "A"))
         /\ UNCHANGED <<mem, ret, shadow, NotCpu>>

\* Cpu::daa on what BcdAdd left; the operation keeps the operands of the addition
BcdDaa ==
    /\ op.name = "add"
    /\ cpu' = daa(cpu)
    /\ op' = Op("daa", op.a, get_reg(cpu, "A"), op.old)
    /\ UNCHANGED <<mem, ret, shadow, NotCpu>>

NextBcd == BcdSet \/ BcdAdd \/ BcdDaa

SpecBcd == Init /\ [][NextBcd]_vars

(***************************************************************************)
(* The CPU: 16-bit addition, increments, decrements, rotates, shifts, bits  *)
(***************************************************************************)
\* The pairs that ADD and INC are decoded for
WordPairs == {"BC", "DE", "HL"}
\* The registers that INC is decoded for
ByteRegs == Regs \ {"F"}
\* Values of a pair and operands of the addition: $0000, $0001, $000F, $0FFF, $1000,
\* $7FFF, $8001, $F001, $FFFF
WordVals == {0, 1, 15, 4095, 4096, 32767, 32769, 61441, 65535}

\* Cpu::set_reg_16 on a pair and Cpu::set_reg on F, once after construction
WordSet ==
    /\ op.name = "new"
    /\ \E r \in WordPairs, t \in WordVals, f \in AluFVals :
         DoReg(set_reg(set_reg_16(cpu, r, t), "F", f), "set_pair", r, t)

\* Cpu::add_nn_d16 on what WordSet left
WordAdd ==
    /\ op.name = "set_pair"
    /\ \E r \in WordPairs, s \in WordVals :
         DoReg(add_nn_d16(cpu, r, s), "add_nn_d16", r, s)

\* Cpu::inc_8 on what WordSet left
WordInc8 ==
    /\ op.name = "set_pair"
    /\ \E r \in ByteRegs : DoReg(inc_8(cpu, r), "inc_8", r, 0)

\* Cpu::inc_16 on what WordSet left
WordInc16 ==
    /\ op.name = "set_pair"
    /\ \E r \in WordPairs : DoReg(inc_16(cpu, r), "inc_16", r, 0)

\* Cpu::dec_8 and Cpu::dec_16 on what WordSet left
WordDec8 ==
    /\ op.name = "set_pair"
    /\ \E r \in ByteRegs : DoReg(dec_8(cpu, r), "dec_8", r, 0)
WordDec16 ==
    /\ op.name = "set_pair"
    /\ \E r \in WordPairs : DoReg(dec_16(cpu, r), "dec_16", r, 0)

\* A rotate, shift or swap of a byte on what WordSet left; the operation records the
\* byte, the byte returned and its flag argument
DoByte(out, name, byte, flag) ==
    /\ op.name = "set_pair"
    /\ cpu' = out.cpu
    /\ op' = Op(name, byte, out.val, IF flag THEN 1 ELSE 0)
    /\ UNCHANGED <<mem, ret, shadow, NotCpu>>

\* The same of a register; the operation records the register and its flag argument
DoByteReg(c, name, r, flag) ==
    /\ op.name = "set_pair"
    /\ DoReg(c, name, r, IF flag THEN 1 ELSE 0)

\* Cpu::rot_left, Cpu::rot_left_reg, Cpu::rot_right, Cpu::rot_right_reg
WordRotLeft ==
    \E n \in AluAVals, carry \in BOOLEAN : DoByte(rot_left(cpu, n, carry), "rot_left", n, carry)
WordRotLeftReg ==
    \E r \in ByteRegs, carry \in BOOLEAN :
        DoByteReg(rot_left_reg(cpu, r, carry), "rot_left_reg", r, carry)
WordRotRight ==
    \E n \in AluAVals, carry \in BOOLEAN : DoByte(rot_right(cpu, n, carry), "rot_right", n, carry)
WordRotRightReg ==
    \E r \in ByteRegs, carry \in BOOLEAN :
        DoByteReg(rot_right_reg(cpu, r, carry), "rot_right_reg", r, carry)

\* Cpu::shift_left, Cpu::shift_left_reg, Cpu::shift_right, Cpu::shift_right_reg
WordShiftLeft == \E n \in AluAVals : DoByte(shift_left(cpu, n), "shift_left", n, FALSE)
WordShiftLeftReg ==
    \E r \in ByteRegs : DoByteReg(shift_left_reg(cpu, r), "shift_left_reg", r, FALSE)
WordShiftRight ==
    \E n \in AluAVals, arith \in BOOLEAN :
        DoByte(shift_right(cpu, n, arith), "shift_right", n, arith)
WordShiftRightReg ==
    \E r \in ByteRegs, arith \in BOOLEAN :
        DoByteReg(shift_right_reg(cpu, r, arith), "shift_right_reg", r, arith)

\* Cpu::swap_bits, Cpu::swap_bits_reg
WordSwap == \E n \in AluAVals : DoByte(swap_bits(cpu, n), "swap_bits", n, FALSE)
WordSwapReg ==
    \E r \in ByteRegs : DoByteReg(swap_bits_reg(cpu, r), "swap_bits_reg", r, FALSE)

\* Cpu::test_bit, Cpu::test_bit_reg, Cpu::write_bit_n on what WordSet left; the
\* operation records the digit
WordTestBit ==
    /\ op.name = "set_pair"
    /\ \E n \in AluAVals, digit \in 0..7 : DoReg(test_bit(cpu, n, digit), "test_bit", n, digit)
WordTestBitReg ==
    /\ op.name = "set_pair"
    /\ \E r \in ByteRegs, digit \in 0..7 :
         DoReg(test_bit_reg(cpu, r, digit), "test_bit_reg", r, digit)
WordWriteBit ==
    /\ op.name = "set_pair"
    /\ \E r \in ByteRegs, digit \in 0..7, set \in BOOLEAN :
         /\ cpu' = write_bit_n(cpu, r, digit, set)
         /\ op' = Op("write_bit_n", r, digit, IF set THEN 1 ELSE 0)
         /\ UNCHANGED <<mem, ret, shadow, NotCpu>>

NextWord ==
    \/ WordSet \/ WordAdd \/ WordInc8 \/ WordInc16 \/ WordDec8 \/ WordDec16
    \/ WordRotLeft \/ WordRotLeftReg \/ WordRotRight \/ WordRotRightReg
    \/ WordShiftLeft \/ WordShiftLeftReg \/ WordShiftRight \/ WordShiftRightReg
    \/ WordSwap \/ WordSwapReg \/ WordTestBit \/ WordTestBitReg \/ WordWriteBit

SpecWord == Init /\ [][NextWord]_vars

(***************************************************************************)
(* The joypad                                                              *)
(***************************************************************************)
\* Buttons of the events: two of each group
JoyButtons == {"A", "Start", "Right", "Down"}
\* Values written to $FF00: both groups, directions, buttons, neither group selected
PollVals == {0, 16, 32, 48}

\* IO::poll_btns
JoyPoll ==
    /\ \E val \in PollVals :
         /\ io' = poll_btns(io, val)
         /\ joy' = [joy EXCEPT !.sel = val, !.irq = FALSE]
         /\ op' = Op("poll_btns", val, 0, 0)
    /\ UNCHANGED <<clockVars, clockHist, ppuVars, timerVars, timerHist, cartVars, cpuVars, fb>>

\* IO::btn_toggle: it returns nothing and IO keeps no interrupt state, so no interrupt
\* is requested
JoyToggle ==
    /\ \E btn \in JoyButtons, pressed \in BOOLEAN :
         /\ io' = btn_toggle(io, btn, pressed)
         /\ joy' = [joy EXCEPT !.irq = FALSE]
         /\ op' = Op("btn_toggle", get_index(btn), IF pressed THEN 1 ELSE 0, 0)
    /\ UNCHANGED <<clockVars, clockHist, ppuVars, timerVars, timerHist, cartVars, cpuVars, fb>>

\* IO::read_btns
JoyRead ==
    /\ joy' = [joy EXCEPT !.read = read_btns(io), !.irq = FALSE]
    /\ op' = Op("read_btns", 0, 0, 0)
    /\ UNCHANGED <<io, clockVars, clockHist, ppuVars, timerVars, timerHist, cartVars, cpuVars, fb>>

NextJoy == JoyPoll \/ JoyToggle \/ JoyRead

SpecJoy == Init /\ [][NextJoy]_vars

(***************************************************************************)
(* The sprites                                                             *)
(***************************************************************************)
\* Background rows under the sprite: blank, every colour, no blank pixel
BgRows == { <<0, 0, 0, 0, 0, 0, 0, 0>>, <<0, 1, 2, 3, 0, 1, 2, 3>>, <<3, 2, 1, 3, 2, 1, 3, 2>> }
\* The two bytes of row 0 of the tile: pixels 0 1 2 3 3 2 1 0, 0 0 0 0 3 3 3 3,
\* 1 1 1 1 1 1 1 1
TileRowBytes == { <<90, 60>>, <<15, 15>>, <<255, 0>> }
\* Attribute bytes: none, BG priority, X flip, both, palette 1, Y flip
SprFlagVals == {0, 128, 32, 160, 16, 64}
\* X bytes of the sprite: screen x = 0 and 4
SprXVals == {8, 12}
\* OBP0 and OBP1: $E4 and $1B, or $1B and $E4
SprPalVals == { <<228, 27>>, <<27, 228>> }

\* PPU::write_vram of sprite 0, of row 0 of tile 0 and of the palettes, once after
\* construction, over a background
SprSetup ==
    /\ op.name = "new"
    /\ \E bg \in BgRows, t \in TileRowBytes, fl \in SprFlagVals, x \in SprXVals,
          pal \in SprPalVals :
         /\ SetPPU(write_vram_all(PPU,
                 << <<65024, Y_OFFSET>>, <<65025, x>>, <<65027, fl>>,
                    <<32768, t[1]>>, <<32769, t[2]>>,
                    <<65352, pal[1]>>, <<65353, pal[2]>> >>))
         /\ fb' = [i \in FbKept |-> bg[i + 1]]
         /\ op' = Op("setup", fl, x, 0)
    /\ UNCHANGED <<clockVars, clockHist, timerVars, timerHist, cartVars, cpuVars, ioVars>>

\* PPU::draw_spr of sprite 0 with its tile at its screen coordinates
SprDraw ==
    /\ op.name = "setup"
    /\ fb' = draw_spr(PPU, fb, tiles[oam[0].tile_num], oam[0],
                      [x |-> oam[0].x, y |-> oam[0].y])
    /\ op' = Op("draw_spr", 0, 0, 0)
    /\ UNCHANGED <<ppuVars, clockVars, clockHist, timerVars, timerHist, cartVars, cpuVars, ioVars>>

NextSprite == SprSetup \/ SprDraw

SpecSprite == Init /\ [][NextSprite]_vars

(***************************************************************************)
(* The CPU: the stack                                                      *)
(***************************************************************************)
\* Values pushed: $ABCD, $1234
PushVals == {43981, 4660}
\* Values SP is set to: $0000, $0001, $FFFD, $FFFE, $FFFF
SpVals == {0, 1, 65533, 65534, 65535}
\* Values PC is set to: $0150, $FFFE
PcVals == {336, 65534}
\* Addresses of the RAM written by the program: $FFFD, $FFFE
RamWriteAddrs == {65533, 65534}
\* Bytes written there: $5A, $FF
RamWriteVals == {90, 255}
\* Bits written there: bit 0, bit 7
RamWriteDigits == {0, 7}

\* The outcome of a stack operation becomes the state
Land(out) ==
    /\ cpu' = out.cpu
    /\ mem' = out.bus.ram
    /\ cart' = out.bus.cart
    /\ ret' = [val |-> out.val, abort |-> out.abort]
    /\ UNCHANGED <<rd, clockVars, clockHist, ppuVars, timerVars, timerHist, ioVars, fb>>

\* Cpu::set_sp
StSetSp ==
    /\ ~ret.abort
    /\ \E s \in SpVals :
         /\ cpu' = set_sp(cpu, s)
         /\ op' = Op("set_sp", s, 0, 0)
    /\ shadow' = <<>>
    /\ UNCHANGED <<mem, ret, NotCpu>>

\* Cpu::push while the bytes land in the RAM that is kept (or wrap around $0000);
\* the operation records SP before it
StPush ==
    /\ ~ret.abort
    /\ get_sp(cpu) < 2 \/ get_sp(cpu) - 2 >= StackLow
    /\ \E v \in PushVals :
         LET out == push(cpu, Bus(mem, cart), v, overflow_checks) IN
         /\ Land(out)
         /\ op' = Op("push", get_sp(cpu), v, 0)
         /\ shadow' = IF out.abort THEN shadow
                      ELSE Append(shadow, [val |-> v, sp |-> get_sp(cpu)])

\* Cpu::pop; the operation records SP before it
StPop ==
    /\ ~ret.abort
    /\ LET out == pop(cpu, Bus(mem, cart), overflow_checks) IN
       /\ Land(out)
       /\ op' = Op("pop", get_sp(cpu), 0, 0)
       /\ shadow' = IF out.abort \/ shadow = <<>> THEN shadow
                    ELSE SubSeq(shadow, 1, Len(shadow) - 1)

\* Cpu::set_pc
StSetPc ==
    /\ ~ret.abort
    /\ \E v \in PcVals :
         /\ cpu' = set_pc(cpu, v)
         /\ op' = Op("set_pc", v, 0, 0)
    /\ UNCHANGED <<mem, ret, shadow, NotCpu>>

\* Cpu::fetch while the byte comes from the RAM that is kept; the operation records PC
\* before it
StFetch ==
    /\ ~ret.abort
    /\ get_pc(cpu) \in StackAddrs
    /\ LET out == fetch(cpu, Bus(mem, cart), overflow_checks) IN
       /\ Land(out)
       /\ op' = Op("fetch", get_pc(cpu), 0, 0)
    /\ UNCHANGED shadow

\* Cpu::write_ram to the RAM that is kept; the pushes made before it are no longer
\* followed
StWriteRam ==
    /\ ~ret.abort
    /\ \E a \in RamWriteAddrs, v \in RamWriteVals :
         /\ Land(CpuOutcome(cpu, write_ram(Bus(mem, cart), a, v), 0, FALSE))
         /\ op' = Op("write_ram", a, v, mem[a])
    /\ shadow' = <<>>

\* Cpu::write_bit_ram on the RAM that is kept; the pushes made before it are no longer
\* followed
StWriteBitRam ==
    /\ ~ret.abort
    /\ \E a \in RamWriteAddrs, digit \in RamWriteDigits, set \in BOOLEAN :
         /\ Land(write_bit_ram(cpu, Bus(mem, cart), a, digit, set, overflow_checks))
         /\ op' = Op("write_bit_ram", a, digit, mem[a])
    /\ shadow' = <<>>

NextStack == StSetSp \/ StPush \/ StPop \/ StSetPc \/ StFetch

SpecStack == InitBuild /\ [][NextStack]_vars

\* The stack from the SP of Cpu::new, with the program writing the RAM under it and
\* fetching from it
NextRam == StPush \/ StPop \/ StSetPc \/ StFetch \/ StWriteRam \/ StWriteBitRam

SpecRam == InitBuild /\ [][NextRam]_vars

(***************************************************************************)
(* The whole core                                                          *)
(***************************************************************************)
Next ==
    \/ NextClock \/ NextPPU \/ NextTimer \/ NextOverflow \/ NextMbc \/ NextExtRam \/ NextLoad
    \/ NextFlags \/ NextPairs \/ NextAlu \/ NextStack \/ NextRam
    \/ NextBcd \/ NextWord \/ NextJoy \/ NextSprite \/ NextTick

Spec == Init /\ [][Next]_vars

(***************************************************************************)
(* Properties of the PPU clock                                             *)
(***************************************************************************)
\* C1: clock_step returns RenderFrame on exactly the call in which LY goes from 143 to
\* 144 at the end of an HBlank and the mode becomes VBlank, and on no other call.
C1_FrameReadyAtLine144 ==
    [][ op'.name = "clock_step" =>
          ( result' = "RenderFrame" <=>
              ( /\ clock.mode = "HBLANK"
                /\ clock.line = 143
                /\ clock'.line = 144
                /\ clock'.mode = "VBLANK" ) ) ]_vars

\* C2: from reset, RenderFrame is returned exactly once in each pass of LY through
\* 0 -> 153 -> 0, and exactly 70,224 T-cycles are fed to clock_step between two
\* consecutive RenderFrame results.
C2_OneFramePer70224 ==
    /\ signals <= 1
    /\ passes >= 1 => pass_signals = 1
    /\ frames >= 2 => period = LinesPerFrame * LineCycles

\* Where a scanline is after t T-cycles: its mode and the cycles spent in the mode
ModeStart(mode) ==
    CASE mode = "OAMReadMode"  -> 0
      [] mode = "VRAMReadMode" -> OAM_READ_LEN
      [] mode = "HBLANK"       -> OAM_READ_LEN + VRAM_READ_LEN
ModeAt(pos) ==
    IF pos < OAM_READ_LEN THEN "OAMReadMode"
    ELSE IF pos < OAM_READ_LEN + VRAM_READ_LEN THEN "VRAMReadMode"
    ELSE "HBLANK"

\* C3: on the visible scanlines the clock goes through OAM scan (80 T-cycles), Drawing
\* (172) and HBlank (204) in that order, so that every scanline takes exactly 456
\* T-cycles however the cycles are split over the calls: after `fed` cycles from reset
\* (the start of an HBlank) the clock is exactly where that many cycles lead.
C3_ScanlineIs456 ==
    LET t == ModeStart("HBLANK") + fed
        pos == t % LineCycles
    IN /\ clock.line = t \div LineCycles
       /\ clock.mode = ModeAt(pos)
       /\ clock.cycles = pos - ModeStart(ModeAt(pos))

\* C4: in every state of the clock LY is in 0..153, the mode is VBlank exactly when LY
\* is in 144..153, and OAM scan, Drawing and HBlank occur only with LY in 0..143.
C4_LyAndModeRanges ==
    /\ clock.line \in 0..153
    /\ clock.mode = "VBLANK" <=> clock.line \in 144..153
    /\ clock.mode \in {"OAMReadMode", "VRAMReadMode", "HBLANK"} => clock.line \in 0..143

(***************************************************************************)
(* Properties of the PPU store                                             *)
(***************************************************************************)
Restricted(raw) == IsOamAddr(raw) \/ IsVramAddr(raw)
RestrictedMode(p) == get_lcdc_status(p) \in {"OAMReadMode", "VRAMReadMode"}

\* C5: while the STAT mode bits say OAM scan (2) or Drawing (3), a write to OAM or VRAM
\* changes neither the stored bytes nor the sprite/tile shadows, and a read of those
\* regions returns $FF.
C5_RestrictedAccessBlocked ==
    [][ /\ ( op'.name = "write_vram" /\ Restricted(op'.a) /\ RestrictedMode(PPU) )
             => UNCHANGED <<vram, oam, tiles>>
        /\ RestrictedMode(PPU') =>
             \A a \in RawAddrs : Restricted(a) => read_vram(PPU', a) = 255 ]_vars

\* C6: after every set_ly, STAT bit 2 equals (LY = LYC), for any sequence of LY updates
\* and LYC writes.
C6_CoincidenceBitTracksLyc ==
    op.name = "set_ly" => ( get_bit(vram[STAT], 2) <=> vram[LY] = vram[LYC] )

\* C7: a write of any value to STAT ($FF41) leaves STAT bits 0-2 unchanged; only bits
\* 3-7 take the written value.
C7_StatWriteKeepsLowBits ==
    [][ ( op'.name = "write_vram" /\ op'.a = STAT + VRAM_OFFSET ) =>
          /\ vram'[STAT] % 8 = vram[STAT] % 8
          /\ vram'[STAT] \div 8 = op'.v \div 8 ]_vars

(***************************************************************************)
(* Properties of the timer                                                 *)
(***************************************************************************)
\* C8: in any timer state, after a write of any value to DIV ($FF04) a read of DIV
\* returns 0.
C8_DivWriteReadsZero ==
    ( op.name = "write_timer" /\ op.a = DIV_REG ) => read_timer(timer, DIV_REG) = 0

\* C8 witness: a non-zero value was written to DIV while DIV read non-zero.
C8_Witness ==
    /\ op.name = "write_timer"
    /\ op.a = DIV_REG
    /\ op.v # 0
    /\ op.old # 0

\* T-cycles one tick() call may stand for: one, or the 16 at which TIMER_SPEED_IN_CYCLES
\* calls make the 256 T-cycles of a DIV increment.
TickReadings == {1, 256 \div TIMER_SPEED_IN_CYCLES}

\* C9: DIV is the upper byte of a 16-bit counter of the T-cycles since reset or the last
\* DIV write, running whether or not TAC enables the timer (for one of the readings of
\* a tick call).
C9_DivIsUpperByteOfCounter ==
    \E k \in TickReadings :
        read_timer(timer, DIV_REG) = ((since_div * k) \div 256) % 256

\* T-cycles per TIMA increment for TAC[1:0] = 00, 01, 10, 11
TimaPeriod == <<1024, 16, 64, 256>>

\* C10: while TAC bit 2 is set TIMA goes up by one exactly once every 1024, 16, 64 or 256
\* T-cycles, in every period; while it is clear TIMA does not change. Over the tick calls
\* since the last register write that gives between floor(T/P) and floor(T/P)+1
\* increments (for one of the readings of a tick call).
C10_TimaRate ==
    \E k \in TickReadings :
        LET T == since_cfg * k
            P == TimaPeriod[timer.cnt_index + 1]
            n == (timer.cnt_reg - tima_base) % 256
        IN IF timer.running
           THEN T \div P <= n /\ n <= (T \div P) + 1
           ELSE n = 0

\* C11: the tick in which TIMA overflows from $FF leaves TIMA reading $00 and requests no
\* interrupt yet; the reload with TMA and the interrupt come in a later tick, out of a
\* state in which TIMA reads $00, and tick requests an interrupt at no other time.
C11_OverflowReloadDelayed ==
    [][ op'.name = "tick" =>
          /\ ( timer.cnt_reg = 255 /\ ( timer'.cnt_reg # 255 \/ irq' ) ) =>
                ( timer'.cnt_reg = 0 /\ ~irq' )
          /\ irq' => ( timer.cnt_reg = 0 /\ timer'.cnt_reg = timer.mod_reg ) ]_vars

\* C12: after a write of a value v to TIMA ($FF05), TIMA reads back v (the example of
\* TIMA written to $FF overflowing to TMA rests on it).
C12_TimaWriteReadsBack ==
    ( op.name = "write_timer" /\ op.a = CNT_REG ) => read_timer(timer, CNT_REG) = op.v

(***************************************************************************)
(* Properties of the cartridge                                             *)
(***************************************************************************)
\* The bank that a bank number selects on MBC1: $00, $20, $40, $60 select the next one
Mbc1Bank(b) == IF b \in {0, 32, 64, 96} THEN b + 1 ELSE b
\* A write_cart call to the range lo..hi of an MBC1 cartridge takes place in this step
Mbc1WriteTo(lo, hi) ==
    /\ op'.name = "write_cart"
    /\ op'.a \in lo..hi
    /\ cart.mbc = "MBC1"

\* C13: on MBC1 a write of v to $2000-$3FFF puts v & $1F into the low 5 bits of the ROM
\* bank and keeps the upper bank bits, and a resulting bank number $00, $20, $40 or $60
\* is replaced by $01, $21, $41, $61.
C13_RomBankLowBits ==
    [][ Mbc1WriteTo(ROM_BANK_NUM_START, ROM_BANK_NUM_STOP) =>
          cart'.rom_bank = Mbc1Bank((cart.rom_bank \div 32) * 32 + (op'.v % 32)) ]_vars

\* C14: on MBC1 a write of v to $6000-$7FFF selects ROM mode when bit 0 of v is 0 and RAM
\* mode when it is 1; a write of v to $4000-$5FFF in ROM mode replaces bits 5-6 of the
\* ROM bank by v & 3 and leaves the low 5 bits and the RAM bank unchanged, and in RAM
\* mode sets the RAM bank to v & 3 and leaves the ROM bank unchanged.
C14_ModeAndUpperBits ==
    [][ /\ Mbc1WriteTo(ROM_RAM_MODE_START, ROM_RAM_MODE_STOP) =>
             cart'.rom_mode = (op'.v % 2 = 0)
        /\ ( Mbc1WriteTo(RAM_BANK_NUM_START, RAM_BANK_NUM_STOP) /\ cart.rom_mode ) =>
             /\ cart'.rom_bank = (cart.rom_bank \div 128) * 128 + (op'.v % 4) * 32
                                   + (cart.rom_bank % 32)
             /\ cart'.ram_bank = cart.ram_bank
        /\ ( Mbc1WriteTo(RAM_BANK_NUM_START, RAM_BANK_NUM_STOP) /\ ~cart.rom_mode ) =>
             /\ cart'.ram_bank = op'.v % 4
             /\ cart'.rom_bank = cart.rom_bank ]_vars

\* C15: on an MBC1 cartridge, after any sequence of control-register writes, the ROM bank
\* used for $4000-$7FFF is at least 1 and is none of $00, $20, $40, $60.
C15_RomBankNeverZero ==
    cart.mbc = "MBC1" => ( cart.rom_bank >= 1 /\ cart.rom_bank \notin {0, 32, 64, 96} )

\* C15 witness: a value whose low 5 bits are zero was written to $2000-$3FFF of an MBC1
\* cartridge.
C15_Witness ==
    /\ cart.mbc = "MBC1"
    /\ op.name = "write_cart"
    /\ op.a \in ROM_BANK_NUM_START..ROM_BANK_NUM_STOP
    /\ op.v % 32 = 0
    /\ op.v # 0

\* C16: on MBC1 a write of v to $0000-$1FFF enables external RAM exactly when the low
\* nibble of v is $A, and changes no bank register.
C16_RamEnableLowNibble ==
    [][ Mbc1WriteTo(RAM_ENABLE_START, RAM_ENABLE_STOP) =>
          /\ cart'.ext_ram_enable = (op'.v % 16 = 10)
          /\ cart'.rom_bank = cart.rom_bank
          /\ cart'.ram_bank = cart.ram_bank
          /\ cart'.rom_mode = cart.rom_mode ]_vars

\* C17 as stated, for every controller: a write to $A000-$BFFF while external RAM is
\* disabled changes no byte of any RAM bank and no register; while it is enabled it
\* changes only the addressed byte of the selected RAM bank, which then reads back the
\* written value.
C17_ExtRamWrite ==
    [][ ( op'.name = "write_cart" /\ op'.a \in EXT_RAM_START..EXT_RAM_STOP ) =>
          IF cart.ext_ram_enable
          THEN /\ \A i \in RamOffsets :
                    cart'.ram.bytes[i] = IF i = Selected(cart, op'.a) THEN op'.v
                                         ELSE cart.ram.bytes[i]
               /\ [cart' EXCEPT !.ram = cart.ram] = cart
               /\ read_cart(cart', op'.a, overflow_checks) = Byte(op'.v)
          ELSE cart' = cart ]_vars

\* C17, per controller: a write to $A000-$BFFF while external RAM is disabled changes
\* nothing in the cartridge, whatever its controller. While it is enabled the write
\* changes no register and at most one byte of RAM: on MBC1, and on MBC3 with a RAM bank
\* selected, the addressed byte of the selected bank, which then reads back the written
\* value; on MBC2 the half-byte at (address - $A000) mod 512, which takes the low 4 bits
\* of the value and reads back with high nibble $F; on MBC3 with a clock register
\* selected no byte of RAM.
C17_ExtRamWritePerController ==
    [][ ( op'.name = "write_cart" /\ op'.a \in EXT_RAM_START..EXT_RAM_STOP ) =>
          IF cart.ext_ram_enable
          THEN /\ [cart' EXCEPT !.ram = cart.ram] = cart
               /\ cart'.ram.len = cart.ram.len
               /\ CASE cart.mbc = "MBC1" \/ (cart.mbc = "MBC3" /\ cart.ram_bank \in 0..3) ->
                         /\ \A i \in RamOffsets :
                              cart'.ram.bytes[i] = IF i = Selected(cart, op'.a) THEN op'.v
                                                   ELSE cart.ram.bytes[i]
                         /\ read_cart(cart', op'.a, overflow_checks) = Byte(op'.v)
                    [] cart.mbc = "MBC2" ->
                         /\ \A i \in RamOffsets :
                              cart'.ram.bytes[i] =
                                  IF i = (op'.a - EXT_RAM_START) % MBC2_RAM_SIZE
                                  THEN op'.v % 16 ELSE cart.ram.bytes[i]
                         /\ read_cart(cart', op'.a, overflow_checks)
                              = Byte(240 + (op'.v % 16))
                    [] OTHER -> cart'.ram = cart.ram
          ELSE cart' = cart ]_vars

\* C17 witness: on an MBC2 cartridge with external RAM enabled, a write of $AB to $BFFF
\* stored $0B in the last half-byte of the mirrored RAM.
C17_Witness ==
    /\ op.name = "write_cart"
    /\ op.a = EXT_RAM_STOP
    /\ op.v = 171
    /\ cart.mbc = "MBC2"
    /\ cart.ext_ram_enable
    /\ ram_at(cart.ram, MBC2_RAM_SIZE - 1) = 11

\* C18: a read of $A000-$BFFF of a loaded cartridge returns $FF when external RAM is not
\* enabled (cartridges without controller included) and the stored byte of the selected
\* RAM bank when it is enabled.
C18_ExtRamRead ==
    ( op.name = "read_cart" /\ op.a \in EXT_RAM_START..EXT_RAM_STOP /\ cart.rom # <<>> ) =>
        /\ ~rd.abort
        /\ rd.val = IF cart.ext_ram_enable
                    THEN ram_at(cart.ram, Selected(cart, op.a))
                    ELSE 255

\* The byte of the loaded ROM that address a of the ROM area stands for
RomIndex(c, a) ==
    IF a < ROM_BANK_SIZE THEN a ELSE c.rom_bank * ROM_BANK_SIZE + (a - ROM_BANK_SIZE)

\* C19: after load_cart(r) and any cartridge writes, a read of an address a in
\* $0000-$3FFF returns r[a] and a read of a in $4000-$7FFF, $7FFF included, returns
\* r[rom_bank * $4000 + (a - $4000)] (for the banks the file has); no write changes the
\* ROM bytes.
C19_RomReads ==
    [][ /\ ( /\ op'.name = "read_cart"
             /\ op'.a \in ROM_START..ROM_STOP
             /\ RomIndex(cart, op'.a) < rom_len(cart.rom) ) =>
               rd' = Byte(rom_at(cart.rom, RomIndex(cart, op'.a)))
        /\ op'.name = "write_cart" => cart'.rom = cart.rom ]_vars

\* The controller that a cartridge-type byte stands for
MbcOfType(t) ==
    CASE t = 0 -> "NONE"
      [] t \in 1..3 -> "MBC1"
      [] t \in 5..6 -> "MBC2"
      [] t \in 15..19 -> "MBC3"
      [] t \in 25..30 -> "MBC5"
      [] OTHER -> "unspecified"

\* C20: load_cart derives the controller from header byte $0147 ($00 NONE, $01-$03 MBC1,
\* $05-$06 MBC2, $0F-$13 MBC3, $19-$1E MBC5) and allocates 128 KiB of external RAM for
\* MBC5 and 32 KiB for MBC1 and MBC3.
C20_ControllerFromHeader ==
    ( op.name = "load_cart" /\ MbcOfType(op.a) # "unspecified" ) =>
        /\ cart.mbc = MbcOfType(op.a)
        /\ MbcOfType(op.a) = "MBC5" => cart.ram.len = 128 * 1024
        /\ MbcOfType(op.a) \in {"MBC1", "MBC3"} => cart.ram.len = 32 * 1024

\* C21: load_rom fails with an error outcome, neither aborting nor accepting the file,
\* when the ROM is shorter than $0150 bytes or its cartridge-type byte is not supported.
C21_LoadRejectsBadRom ==
    [][ ( op'.name = "load_cart"
          /\ (op'.v < 336 \/ MbcOfType(op'.a) = "unspecified") ) =>
            ~rd'.abort /\ cart' = cart ]_vars

(***************************************************************************)
(* Properties of the CPU registers and flags                               *)
(***************************************************************************)
\* C22: the low nibble of F is zero in every reachable state of the CPU: at reset, after
\* set_reg on F, after set_reg_16 on AF, after the flag operations and the arithmetic.
C22_FLowNibbleZero == cpu.f % 16 = 0

\* The two registers of a pair, high byte first
PairRegs(r) ==
    CASE r = "AF" -> <<"A", "F">>
      [] r = "BC" -> <<"B", "C">>
      [] r = "DE" -> <<"D", "E">>
      [] r = "HL" -> <<"H", "L">>

\* C23: after set_reg_16(pair, v), get_reg_16(pair) returns v for BC, DE and HL and
\* v & $FFF0 for AF; the high byte is in the first register of the pair, the low byte in
\* the second, and no other register changes.
C23_Reg16RoundTrip ==
    [][ op'.name = "set_reg_16" =>
          LET r == op'.a
              v == op'.v
              kept == IF r = "AF" THEN v - (v % 16) ELSE v
          IN /\ get_reg_16(cpu', r) = kept
             /\ get_reg(cpu', PairRegs(r)[1]) = kept \div 256
             /\ get_reg(cpu', PairRegs(r)[2]) = kept % 256
             /\ \A x \in Regs \ {PairRegs(r)[1], PairRegs(r)[2]} :
                  get_reg(cpu', x) = get_reg(cpu, x)
             /\ cpu'.sp = cpu.sp /\ cpu'.pc = cpu.pc ]_vars

(***************************************************************************)
(* Properties of the stack                                                 *)
(***************************************************************************)
\* The push that a pop undoes was made with SP in the RAM of the bus
PushedInRam == shadow # <<>> /\ shadow[Len(shadow)].sp \in StackAddrs

\* C24: for every value v and every SP that points into writable memory, push(v) followed
\* by pop() returns v and restores SP, and nested pushes are popped last in, first out.
C24_PushPopRoundTrip ==
    [][ (op'.name = "pop" /\ PushedInRam) =>
          /\ ~ret'.abort
          /\ ret'.val = shadow[Len(shadow)].val
          /\ cpu'.sp = shadow[Len(shadow)].sp ]_vars

\* A pop returned the value of the first of two nested pushes, after the second was popped
C24_Witness ==
    /\ op.name = "pop" /\ ~ret.abort /\ shadow = <<>>
    /\ ret.val = 43981 /\ cpu.sp = 65534 /\ mem[65531] = 18

\* C25: push(v) with SP = s leaves SP = s - 2 with the high byte of v at s - 1 and the
\* low byte at s; from reset, push($ABCD) and push($1234) leave SP = $FFFA and the
\* bytes $12, $34, $AB, $CD at $FFFB..$FFFE.
C25_PushLayout ==
    /\ ( op.name = "push" /\ ~ret.abort /\ op.a \in StackAddrs ) =>
          /\ cpu.sp = op.a - 2
          /\ mem[op.a - 1] = op.v \div 256
          /\ mem[op.a] = op.v % 256
    /\ ( op.name = "push"
         /\ shadow = << [val |-> 43981, sp |-> 65534], [val |-> 4660, sp |-> 65532] >> ) =>
          /\ cpu.sp = 65530
          /\ mem[65531] = 18 /\ mem[65532] = 52 /\ mem[65533] = 171 /\ mem[65534] = 205

\* C26: pop() with SP = $FFFE, as at reset, aborts on its assertion before it reads
\* memory or changes SP.
C26_PopAtResetAborts ==
    [][ (op'.name = "pop" /\ cpu.sp = 65534) =>
          ret'.abort /\ cpu' = cpu /\ mem' = mem /\ cart' = cart ]_vars

\* A pop at SP = $FFFE aborted
C26_Witness == op.name = "pop" /\ op.a = 65534 /\ ret.abort /\ cpu.sp = 65534

\* C27: the stack operations never abort, whatever SP is: pop with SP = $FFFE or $FFFF
\* and push with SP = $0000 or $0001 complete with arithmetic that wraps modulo 2^16.
C27_StackNeverAborts ==
    [][ /\ op'.name = "pop" => ~ret'.abort /\ cpu'.sp = (cpu.sp + 2) % 65536
        /\ op'.name = "push" => ~ret'.abort /\ cpu'.sp = (cpu.sp - 2) % 65536 ]_vars

(***************************************************************************)
(* Properties of the 8-bit arithmetic                                      *)
(***************************************************************************)
\* F as the four flags Z, N, H, C
FlagsAre(c, z, n, h, cy) ==
    /\ get_flag(c, "Z") = z
    /\ get_flag(c, "N") = n
    /\ get_flag(c, "H") = h
    /\ get_flag(c, "C") = cy

\* C28: add_a_d8 (ADD, and ADC with carry-in c) leaves A = (A + n + c) mod 256,
\* Z = (result = 0), N = 0, H = ((A & $0F) + (n & $0F) + c > $0F), C = (A + n + c > $FF).
C28_AddFlags ==
    op.name \in {"add", "adc"} =>
        LET a == op.old
            n == op.a
            c == op.v
        IN /\ op.name = "add" => c = 0
           /\ cpu.a = (a + n + c) % 256
           /\ FlagsAre(cpu, cpu.a = 0, FALSE, (a % 16) + (n % 16) + c > 15, a + n + c > 255)

\* A = $FF with carry set, ADC $00: A = $00 with Z, H and C
C28_Witness ==
    /\ op = Op("adc", 0, 1, 255)
    /\ cpu.a = 0 /\ cpu.f = 176

\* C29: sub_a_d8 (SUB, and SBC with carry-in c) leaves A = (A - n - c) mod 256,
\* Z = (result = 0), N = 1, H = ((A & $0F) < (n & $0F) + c), C = (A < n + c).
C29_SubFlags ==
    op.name \in {"sub", "sbc"} =>
        LET a == op.old
            n == op.a
            c == op.v
        IN /\ op.name = "sub" => c = 0
           /\ cpu.a = (a - n - c) % 256
           /\ FlagsAre(cpu, cpu.a = 0, TRUE, (a % 16) < (n % 16) + c, a < n + c)

\* A = $10 with carry set, SBC $0F: A = $00 with Z, N and H
C29_Witness ==
    /\ op = Op("sbc", 15, 1, 16)
    /\ cpu.a = 0 /\ cpu.f = 224

\* C30: cp_a_d8(n) leaves A unchanged and sets all four flags as SUB A, n would,
\* Z = (A = n), N = 1, H = ((A & $0F) < (n & $0F)), C = (A < n), whatever the flags were.
C30_CpFlags ==
    op.name = "cp" =>
        LET a == op.old
            n == op.a
        IN /\ cpu.a = a
           /\ FlagsAre(cpu, a = n, TRUE, (a % 16) < (n % 16), a < n)

\* C31: for packed-BCD bytes x and y, ADD A, y with A = x followed by DAA leaves A the
\* packed-BCD byte of (x + y) mod 100 with C = (x + y > 99), H = 0 and Z = (A = 0);
\* $15 + $27 gives $3C after ADD and $42 after DAA.
C31_DaaAfterAdd ==
    /\ op = Op("add", 39, 0, 21) => cpu.a = 60
    /\ op.name = "daa" =>
         LET x == FromBcd(op.old)
             y == FromBcd(op.a)
         IN /\ cpu.a = ToBcd((x + y) % 100)
            /\ FlagsAre(cpu, cpu.a = 0, get_flag(cpu, "N"), FALSE, x + y > 99)

\* C32: for every value t of a register pair and every operand s, add_nn_d16 leaves the
\* pair = (t + s) mod 65536, N = 0, H = ((t & $0FFF) + (s & $0FFF) > $0FFF),
\* C = (t + s > $FFFF) and Z as it was.
C32_Add16Flags ==
    [][ op'.name = "add_nn_d16" =>
          LET r == op'.a
              s == op'.v
              t == get_reg_16(cpu, r)
          IN /\ get_reg_16(cpu', r) = (t + s) % 65536
             /\ FlagsAre(cpu', get_flag(cpu, "Z"), FALSE,
                         (t % 4096) + (s % 4096) > 4095, t + s > 65535) ]_vars

\* BC = $0FFF with Z set, ADD BC, $F001: BC = $0000 with Z, H and C
C32_Witness ==
    /\ op = Op("add_nn_d16", "BC", 61441, 0)
    /\ get_reg_16(cpu, "BC") = 0 /\ cpu.f = 176

\* C33: for all A and n, and_a_d8, or_a_d8 and xor_a_d8 leave A = A & n, A | n and
\* A ^ n with Z = (result = 0), N = 0, C = 0, and H = 1 for AND but H = 0 for OR and XOR,
\* whatever the flags were.
C33_LogicFlags ==
    op.name \in {"and", "or", "xor"} =>
        LET a == op.old
            n == op.a
            bit(i) == CASE op.name = "and" -> get_bit(a, i) /\ get_bit(n, i)
                        [] op.name = "or" -> get_bit(a, i) \/ get_bit(n, i)
                        [] op.name = "xor" -> get_bit(a, i) # get_bit(n, i)
        IN /\ \A i \in 0..7 : get_bit(cpu.a, i) = bit(i)
           /\ FlagsAre(cpu, cpu.a = 0, FALSE, op.name = "and", FALSE)

\* A = $F0: AND $0F gives $00 with Z and H
C33_Witness == op = Op("and", 15, 0, 240) /\ cpu.a = 0 /\ cpu.f = 160

\* C34: inc_8(r) leaves r = (r + 1) mod 256 with Z = (result = 0), N = 0,
\* H = ((old r & $0F) = $0F) and C as it was; inc_16(pair) leaves
\* pair = (pair + 1) mod 65536 and all four flags as they were.
C34_IncFlags ==
    [][ /\ op'.name = "inc_8" =>
             LET r == op'.a
                 old == get_reg(cpu, r)
             IN /\ get_reg(cpu', r) = (old + 1) % 256
                /\ FlagsAre(cpu', get_reg(cpu', r) = 0, FALSE, old % 16 = 15,
                            get_flag(cpu, "C"))
        /\ op'.name = "inc_16" =>
             /\ get_reg_16(cpu', op'.a) = (get_reg_16(cpu, op'.a) + 1) % 65536
             /\ cpu'.f = cpu.f ]_vars

\* B = $FF with C clear, INC B: B = $00 with Z and H; and HL = $FFFF, INC HL: HL = $0000
C34_Witness ==
    \/ op = Op("inc_8", "B", 0, 0) /\ cpu.b = 0 /\ cpu.c = 255 /\ cpu.f = 160
    \/ op = Op("inc_16", "HL", 0, 0) /\ get_reg_16(cpu, "HL") = 0 /\ cpu.f = 240

(***************************************************************************)
(* Properties of the joypad                                                *)
(***************************************************************************)
\* The first button of the group that a value written to $FF00 selects: bit 5 low selects
\* the buttons, bit 4 low the directions
GroupBase(sel) == IF ~get_bit(sel, 5) THEN 0 ELSE 4
OneGroup(sel) == get_bit(sel, 4) # get_bit(sel, 5)

\* C35: after a write to $FF00 selects a button group, a read returns in bits 0-3 the
\* state of the four buttons of the group, 0 for pressed and 1 for released, whatever
\* button events came later; bits 4-5 are the selection written and bits 6-7 read 1.
C35_JoypadRead ==
    ( op.name = "read_btns" /\ OneGroup(joy.sel) ) =>
        /\ \A i \in 0..3 : get_bit(joy.read, i) = ~io.btns[GroupBase(joy.sel) + i]
        /\ get_bit(joy.read, 4) = get_bit(joy.sel, 4)
        /\ get_bit(joy.read, 5) = get_bit(joy.sel, 5)
        /\ get_bit(joy.read, 6) /\ get_bit(joy.read, 7)

\* C36: whenever a button of the selected group goes from released to pressed, the joypad
\* interrupt (IF bit 4) is requested; a button event without such a transition requests
\* no interrupt.
C36_JoypadInterrupt ==
    [][ op'.name = "btn_toggle" =>
          LET i == op'.a
              selected == IF i < 4 THEN ~get_bit(joy.sel, 5) ELSE ~get_bit(joy.sel, 4)
          IN joy'.irq = (selected /\ ~io.btns[i] /\ io'.btns[i]) ]_vars

(***************************************************************************)
(* Properties of the sprites                                               *)
(***************************************************************************)
\* The raw colour index of the pixel of sprite 0 that lands on pixel i of scanline 0,
\* or -1 when none does
SpritePixelAt(i) ==
    LET spr == oam[0]
        col == IF spr.x_flip THEN TILESIZE - 1 - (i - spr.x) ELSE i - spr.x
        row == IF spr.y_flip THEN TILESIZE - 1 ELSE 0
    IN IF i < spr.x \/ i >= spr.x + TILESIZE THEN -1
       ELSE tile_get_row(tiles[spr.tile_num], row)[col]

\* C37: when a sprite is drawn, a sprite pixel whose raw colour index is 0 never changes
\* the framebuffer, whatever the BG-priority flag and the background pixel are; a
\* non-zero sprite pixel is written unless the BG-priority flag is set and the
\* background pixel there is non-zero.
C37_SpritePixels ==
    [][ op'.name = "draw_spr" =>
          \A i \in FbKept :
              LET raw == SpritePixelAt(i)
                  mapped == get_spr_palette(PPU, oam[0].palette = 0)
              IN /\ raw = 0 => fb'[i] = fb[i]
                 /\ raw > 0 =>
                      fb'[i] = IF ~oam[0].above_bkgd /\ fb[i] # 0 THEN fb[i] ELSE mapped[raw] ]_vars

(***************************************************************************)
(* Properties of the CPU step                                              *)
(***************************************************************************)
\* C38: after every Cpu::tick, LY ($FF44) equals the scanline counter of the clock and
\* STAT bits 0-1 equal the index of the mode of the clock, whatever the executed
\* instruction wrote to those registers.
C38_PpuInLockstep ==
    op.name = "cpu_tick" =>
        /\ vram[LY] = get_scanline(clock)
        /\ vram[STAT] % 4 = get_idx(get_mode(clock))

\* The instruction wrote $FF to STAT and the tick left the VRAM-read mode in bits 0-1
C38_Witness ==
    /\ op.name = "cpu_tick" /\ op.a = 65345
    /\ get_mode(clock) = "VRAMReadMode" /\ vram[STAT] = 255 /\ vram[LY] = 1

(***************************************************************************)
(* Properties of bank selection                                            *)
(***************************************************************************)
\* C39: after one successful load of a ROM file of a valid size, no read of the ROM
\* area indexes outside the ROM array or the external RAM array, whatever was written
\* to the control registers before: read_cart never aborts.
C39_NoOutOfRangeBankAccess ==
    (op.name = "read_cart" /\ Len(cart.rom) = 1) => ~rd.abort

(***************************************************************************)
(* Properties of the sub-counters of the timer                             *)
(***************************************************************************)
\* C40: at the end of every Timer::tick, whatever was written to the timer registers
\* before it, div_cycles is below TIMER_SPEED_IN_CYCLES and cnt_cycles is below the
\* period that TAC selects, so neither sub-counter can overflow its eight bits.
C40_SubCountersBelowPeriod ==
    op.name = "tick" =>
        /\ ~aborted
        /\ timer.div_cycles < TIMER_SPEED_IN_CYCLES
        /\ timer.cnt_cycles < COUNT_SPEED_IN_CYCLES[timer.cnt_index + 1]

====
